---- MODULE Spec2Model ----
(***************************************************************************)
(* Model of maibot_llmreq's request dispatcher                             *)
(* (model_client/__init__.py): one call of ModelRequestHandler.get_response *)
(* or ModelRequestHandler.get_embedding, the failure policy                *)
(* default_exception_handler, and the usage records written around every   *)
(* attempt.                                                                *)
(***************************************************************************)
EXTENDS Integers, Sequences, FiniteSets, TLC

\* ------------------------------------------------------------------ bounds
MaxCands == 2        \* longest candidate list (handler.configs)
MaxRetry == 2        \* largest configured max_retry

\* ----------------------------------------------------- Python value helpers
\* Optional values: None is the empty tuple, a set value v is <<v>>.
None == <<>>

Some(v) == <<v>>

\* Python truthiness of an optional integer (None and 0 are falsy).
TruthyInt(o) == o # None /\ o[1] # 0

\* Python truthiness of an optional list (None and [] are falsy).
TruthyList(o) == o # None /\ Len(o[1]) > 0

\* -------------------------------------------------------------- messages
RoleType == {"system", "user", "assistant", "tool"}

\* Image payloads by what compress_base64_image_by_scale does with them:
\* "small" decodes to at most 2 MiB, "big" is larger and re-encodes to
\* "scaled", "bad" is larger but cannot be opened as an image.
ImageData == {"small", "big", "bad", "scaled"}

TextItem(s) == [t |-> "text", fmt |-> "", data |-> s]

ImageItem(f, d) == [t |-> "image", fmt |-> f, data |-> d]

\* Message.content is a str or a list of items.
StrContent(s) == [t |-> "str", text |-> s, items |-> <<>>]

ListContent(its) == [t |-> "list", text |-> "", items |-> its]

Message(r, c, id) == [role |-> r, content |-> c, tool_call_id |-> id]

\* build without the test of the tool-call id of a Tool message
build_unchecked(r, its, id) ==
  IF Len(its) = 0 THEN <<FALSE, Message(r, StrContent(""), None)>>
  ELSE <<TRUE, Message(r,
                 IF Len(its) = 1 /\ its[1].t = "text"
                   THEN StrContent(its[1].data) ELSE ListContent(its),
                 id)>>

\* MessageBuilder.build applied to a builder holding (role, content, id);
\* the result is <<ok, message>>, ok = FALSE standing for ValueError.
build(r, its, id) ==
  IF Len(its) = 0 THEN <<FALSE, Message(r, StrContent(""), None)>>
  ELSE IF r = "tool" /\ id = None THEN <<FALSE, Message(r, StrContent(""), None)>>
  ELSE <<TRUE, Message(r,
                 IF Len(its) = 1 /\ its[1].t = "text"
                   THEN StrContent(its[1].data) ELSE ListContent(its),
                 id)>>

compress_base64_image_by_scale(d) ==
  IF d = "big" THEN "scaled" ELSE d

\* compress_messages: messages with a list content are rebuilt through a
\* fresh MessageBuilder (role User, no tool-call id), images compressed.
compress_messages(msgs) ==
  [i \in 1..Len(msgs) |->
     IF msgs[i].content.t = "list"
       THEN build("user",
                  [k \in 1..Len(msgs[i].content.items) |->
                     LET it == msgs[i].content.items[k] IN
                       IF it.t = "image"
                         THEN ImageItem(it.fmt, compress_base64_image_by_scale(it.data))
                         ELSE it],
                  None)[2]
       ELSE msgs[i]]

\* The message lists a caller passes to get_response.
MessageInputs ==
  { <<>>,
    << Message("system", StrContent("sys"), None),
       Message("user", ListContent(<<TextItem("look"), ImageItem("png", "big")>>), None) >> }

\* ------------------------------------------------------------ exceptions
StatusCodes == {400, 401, 402, 403, 404, 405, 413, 429, 499, 500, 503}

DeclaredTypes ==
  {"NetworkConnectionError", "ReqAbortException", "RespNotOkException",
   "RespParseException"}

\* What a provider call can raise: the four declared kinds and any other
\* Exception subclass (ValueError, RuntimeError, ...).
Exceptions ==
  [type : {"NetworkConnectionError", "ReqAbortException", "RespParseException",
           "Exception"}, status_code : {0}]
  \cup [type : {"RespNotOkException"}, status_code : StatusCodes]

NoExc == [type |-> "none", status_code |-> 0]

\* ------------------------------------------------------------------ config
\* ModelUsageConfigItem(max_retry, max_tokens, temperature): each override
\* is None (unset) or a value.
ModelUsageConfigItem(r, mt, temp) ==
  [max_retry |-> r, max_tokens |-> mt, temperature |-> temp]

\* The candidates tried: no override at all, every override zero, and every
\* override non-zero.
Candidates ==
  { ModelUsageConfigItem(None, None, None),
    ModelUsageConfigItem(Some(0), Some(0), Some(0)),
    ModelUsageConfigItem(Some(MaxRetry), Some(256), Some(7)) }

RECURSIVE SeqsUpTo(_, _)
SeqsUpTo(S, n) ==
  IF n = 0 THEN { <<>> }
  ELSE LET P == SeqsUpTo(S, n - 1) IN
         P \cup { Append(s, x) : s \in {q \in P : Len(q) = n - 1}, x \in S }

RequestConfigs ==
  [max_retry : {0, 1}, retry_interval : {10},
   default_max_tokens : {1024}, default_temperature : {5}]

VARIABLES
  op,                   \* "get_response" or "get_embedding": the call modelled
  messages,             \* get_response's messages argument
  configs,              \* self.configs: the candidates, in order
  req_conf,             \* self.req_conf
  pc,                   \* position of the call
  idx,                  \* index of config_item in self.configs (0 before the loop)
  remain_try,           \* local remain_try
  compressed_messages,  \* local compressed_messages (None or Some(list))
  record_id,            \* local record_id
  exc,                  \* the exception e the last attempt raised (NoExc once
                        \* the next attempt or candidate starts)
  handle_res,           \* local handle_res = <<wait, new messages or None>>
  records,              \* the usage recorder's records, by record id
  log,                  \* observable events of the call, in order
  result,               \* what the caller observes
  client,               \* local client of the loop over self.configs
  task_name,            \* self.task_name
  client_map,           \* self.client_map: provider name -> client
  model_infos,          \* the ModelInfo of each entry of self.configs
  task_model_usage_map, \* manager.config.task_model_usage_map
  api_client_map,       \* manager.api_client_map: provider name -> client
  lookup,               \* outcome of the last operation on the manager
  other,                \* the suspended or finished other call on the handler
  stub,                 \* the provider as a function of the attempt, if fixed
  client_call,          \* a client method call: client, method, mode, library outcome
  raised,               \* what that client call raises to the dispatcher
  builder,              \* a MessageBuilder: its role, content and tool-call id
  built,                \* the Messages that builder's build has returned
  last_call             \* the last call on the builder and how it ended

\* the handler's fields next to configs and req_conf
handler_fields == <<task_name, client_map, model_infos>>

manager_state == <<task_model_usage_map, api_client_map, lookup>>

\* a MessageBuilder and what came of it
message_vars == <<builder, built, last_call>>

\* what no statement of get_response or get_embedding assigns
outside == <<handler_fields, manager_state, other, stub, client_call, raised,
             builder, built, last_call>>

vars == <<op, messages, configs, req_conf, pc, idx, remain_try,
          compressed_messages, record_id, exc, handle_res, records, log, result,
          client, outside>>

\* MessageBuilder.__init__: role User, no content, no tool-call id
NewBuilder == [role |-> "user", content |-> <<>>, tool_call_id |-> None]

\* ---------------------------------------------------- models and clients
\* manager.config.models: model name -> ModelInfo (name, api_provider)
ModelNames == {"m1", "m2", "m3"}

Providers == {"p1", "p2"}

ModelInfo(n, p) == [name |-> n, api_provider |-> p]

config_models ==
  [n \in ModelNames |-> ModelInfo(n, IF n = "m2" THEN "p2" ELSE "p1")]

\* a client instance: the provider it was built for and which instance it is
ClientInstance(p, k) == <<p, k>>

NoClient == <<>>

\* ModelManager.__init__: one client per configured provider
manager_clients == [p \in Providers |-> ClientInstance(p, 1)]

\* ModelRequestHandler.__init__ caching a client of its own per provider
handler_client_map_own(infos, acm) ==
  [p \in {infos[i].api_provider : i \in 1..Len(infos)} |-> ClientInstance(p, 2)]

\* ModelRequestHandler.__init__: the manager's client of every provider a
\* candidate uses, cached once per provider
handler_client_map(infos, acm) ==
  [p \in {infos[i].api_provider : i \in 1..Len(infos)} |-> acm[p]]

\* the model of the i-th candidate of the handlers built directly
ModelNameAt(i) == IF i % 2 = 0 THEN "m2" ELSE IF i = 1 THEN "m1" ELSE "m3"


\* --------------------------------------------------------- failure policy
\* Candidate classifications of the except clause of the trial loop:
\* `except Exception` catches every exception a provider call raises.
CaughtDeclaredOnly(e) == e.type \in DeclaredTypes

Caught(e) == TRUE

\* The branches of default_exception_handler; each value is
\* <<wait, new message list or None>>, wait = -1 meaning "stop requesting
\* this model" and wait = 0 "retry without waiting".

\* isinstance(e, NetworkConnectionError)
on_network_error(remain, retry_interval) ==
  IF remain > 0 THEN <<retry_interval, None>> ELSE <<-1, None>>

\* e.status_code in [400, 401, 402, 403, 404]
on_client_error(remain, retry_interval) == <<-1, None>>

\* on_status_413 without the "already compressed" test
on_status_413_always_compress(msgs) ==
  IF msgs # None THEN <<0, Some(compress_messages(msgs[1][1]))>>
  ELSE <<-1, None>>

\* e.status_code == 413; msgs is None or Some(<<message list, already
\* compressed>>)
on_status_413(msgs) ==
  IF msgs # None THEN
    IF ~ msgs[1][2] THEN <<0, Some(compress_messages(msgs[1][1]))>>
    ELSE <<-1, None>>
  ELSE <<-1, None>>

\* on_status_429 with the test remain_try >= 0
on_status_429_inclusive(remain, retry_interval) ==
  IF remain >= 0 THEN <<retry_interval, None>> ELSE <<-1, None>>

\* e.status_code == 429
on_status_429(remain, retry_interval) ==
  IF remain > 0 THEN <<retry_interval, None>> ELSE <<-1, None>>

\* on_server_error waiting whatever attempts remain
on_server_error_always_wait(remain, retry_interval) == <<retry_interval, None>>

\* e.status_code >= 500
on_server_error(remain, retry_interval) ==
  IF remain > 0 THEN <<retry_interval, None>> ELSE <<-1, None>>

\* on_req_abort retrying while attempts remain
on_req_abort_retrying(remain, retry_interval) ==
  IF remain > 0 THEN <<retry_interval, None>> ELSE <<-1, None>>

\* elif isinstance(e, ReqAbortException): return -1, None
on_req_abort(remain, retry_interval) == <<-1, None>>

\* on_other_status retrying while attempts remain
on_other_status_retrying(remain, retry_interval) ==
  IF remain > 0 THEN <<retry_interval, None>> ELSE <<-1, None>>

\* any other status code: return -1, None
on_other_status(remain, retry_interval) == <<-1, None>>

\* elif isinstance(e, RespParseException): return -1, None
on_parse_error(remain, retry_interval) == <<-1, None>>

\* else (any other exception): return -1, None
on_unknown_exception(remain, retry_interval) == <<-1, None>>

\* default_messages as an empty, not yet compressed message list
default_messages_empty == Some(<<<<>>, FALSE>>)

\* the handler's messages parameter when the caller passes none
default_messages == None

\* default_exception_handler(e, task_name, model_name, remain_try,
\* retry_interval, messages)
default_exception_handler(e, remain, retry_interval, msgs) ==
  IF e.type = "NetworkConnectionError" THEN on_network_error(remain, retry_interval)
  ELSE IF e.type = "ReqAbortException" THEN on_req_abort(remain, retry_interval)
  ELSE IF e.type = "RespNotOkException" THEN
    IF e.status_code \in {400, 401, 402, 403, 404}
      THEN on_client_error(remain, retry_interval)
    ELSE IF e.status_code = 413 THEN on_status_413(msgs)
    ELSE IF e.status_code = 429 THEN on_status_429(remain, retry_interval)
    ELSE IF e.status_code >= 500 THEN on_server_error(remain, retry_interval)
    ELSE on_other_status(remain, retry_interval)
  ELSE IF e.type = "RespParseException" THEN on_parse_error(remain, retry_interval)
  ELSE on_unknown_exception(remain, retry_interval)

\* Decrement leaving remain_try as it is
DecrementSkipped(remain) == remain

\* remain_try -= 1
Decrement(remain) == remain - 1

\* AfterDecision without the reset of remain_try
AfterDecisionKeep(remain, hr) == remain

\* if handle_res[0] == -1: remain_try = 0
AfterDecision(remain, hr) == IF hr[1] = -1 THEN 0 ELSE remain

\* ----------------------------------------------------------- usage records
\* ModelUsageStatistic.create_usage: a new record in Pending state; its id
\* is its position in the store.
create_usage(recs, model) ==
  Append(recs, [model |-> model, status |-> "Pending", updates |-> 0])

\* ModelUsageStatistic.update_usage: finalizes record id with status stat.
update_usage(recs, id, stat) ==
  [recs EXCEPT ![id] = [@ EXCEPT !.status = stat, !.updates = @ + 1]]

\* ------------------------------------------------------- effective limits
\* model_usage_config.max_retry or self.req_conf.max_retry
EffectiveMaxRetry(c, rc) ==
  IF TruthyInt(c.max_retry) THEN c.max_retry[1] ELSE rc.max_retry

InitialRemainTryPlusTwo(c, rc) == EffectiveMaxRetry(c, rc) + 2

\* remain_try = (model_usage_config.max_retry or self.req_conf.max_retry) + 1
InitialRemainTry(c, rc) == EffectiveMaxRetry(c, rc) + 1

\* model_usage_config.max_tokens if model_usage_config.max_tokens
\* else self.req_conf.default_max_tokens
EffectiveMaxTokens(c, rc) ==
  IF TruthyInt(c.max_tokens) THEN c.max_tokens[1] ELSE rc.default_max_tokens

EffectiveTemperature(c, rc) ==
  IF TruthyInt(c.temperature) THEN c.temperature[1] ELSE rc.default_temperature

\* CurrentPayload that always sends the original messages
CurrentPayloadOriginal(cm, msgs) == msgs

\* compressed_messages if compressed_messages else messages
CurrentPayload(cm, msgs) == IF TruthyList(cm) THEN cm[1] ELSE msgs

\* ------------------------------------------------------------------ events
Event(ev, cand, id, stat, wait, payload, mt, temp) ==
  [ev |-> ev, cand |-> cand, id |-> id, stat |-> stat, wait |-> wait,
   payload |-> payload, max_tokens |-> mt, temperature |-> temp]

EvCreate(cand, id) == Event("create", cand, id, "Pending", 0, <<>>, 0, 0)

EvUpdate(cand, id, stat) == Event("update", cand, id, stat, 0, <<>>, 0, 0)

EvInvoke(cand, id, payload, mt, temp) ==
  Event("invoke", cand, id, "", 0, payload, mt, temp)

EvSleep(cand, d) == Event("sleep", cand, 0, "", d, <<>>, 0, 0)

EvDecide(cand, hr) ==
  Event(IF hr[1] = -1 THEN "abort" ELSE IF hr[2] # None THEN "replace" ELSE "wait",
        cand, 0, "", hr[1], IF hr[2] # None THEN hr[2][1] ELSE <<>>, 0, 0)

\* except_events with the decision taken before the record is finalized
except_events_decide_first(cand, rid, hr) ==
  <<EvDecide(cand, hr)>>
    \o (IF rid # None THEN <<EvUpdate(cand, rid[1], "Failure")>> ELSE <<>>)
    \o (IF hr[1] # -1 /\ hr[1] # 0 THEN <<EvSleep(cand, hr[1])>> ELSE <<>>)

\* what the except block does, in its order: the record is finalized as a
\* failure (if record_id), the handler decides, the loop sleeps on a wait
except_events(cand, rid, hr) ==
  (IF rid # None THEN <<EvUpdate(cand, rid[1], "Failure")>> ELSE <<>>)
    \o <<EvDecide(cand, hr)>>
    \o (IF hr[1] # -1 /\ hr[1] # 0 THEN <<EvSleep(cand, hr[1])>> ELSE <<>>)

NoResult == [kind |-> "none", cand |-> 0, call |-> 0, usage |-> None]

Exhausted == [kind |-> "exhausted", cand |-> 0, call |-> 0, usage |-> None]

Raised == [kind |-> "raised", cand |-> 0, call |-> 0, usage |-> None]

Envelope(cand, call, usage) ==
  [kind |-> "response", cand |-> cand, call |-> call, usage |-> usage]

Count(ev) == Cardinality({i \in 1..Len(log) : log[i].ev = ev})

\* -------------------------------------------------------------------- Init
Init ==
  /\ op \in {"get_response", "get_embedding"}
  /\ messages \in (IF op = "get_response" THEN MessageInputs ELSE { <<>> })
  /\ configs \in SeqsUpTo(Candidates, MaxCands)
  /\ req_conf \in RequestConfigs
  /\ pc = "for"
  /\ idx = 0
  /\ remain_try = 0
  /\ compressed_messages = None
  /\ record_id = None
  /\ exc = NoExc
  /\ handle_res = <<0, None>>
  /\ records = <<>>
  /\ log = <<>>
  /\ result = NoResult
  /\ client = NoClient
  /\ task_name = "task1"
  /\ model_infos = [i \in 1..Len(configs) |-> config_models[ModelNameAt(i)]]
  /\ api_client_map = manager_clients
  /\ client_map = handler_client_map(model_infos, api_client_map)
  /\ task_model_usage_map = <<>>
  /\ lookup = None
  /\ other = None
  /\ stub = None
  /\ client_call = None
  /\ raised = None
  /\ builder = NewBuilder
  /\ built = <<>>
  /\ last_call = None

\* ------------------------------------------------- get_response (181-272)
\* for config_item in self.configs: ... remain_try = (...) + 1;
\* compressed_messages = None
RespNextCandidate ==
  /\ op = "get_response" /\ pc = "for" /\ idx < Len(configs)
  /\ client' = client_map[model_infos[idx + 1].api_provider]
  /\ UNCHANGED outside
  /\ idx' = idx + 1
  /\ remain_try' = InitialRemainTry(configs[idx + 1], req_conf)
  /\ compressed_messages' = None
  /\ exc' = NoExc
  /\ pc' = "while"
  /\ UNCHANGED <<op, messages, configs, req_conf, record_id, handle_res,
                 records, log, result>>

\* RespExhausted with the return inside the loop over self.configs
RespExhaustedEarly ==
  /\ UNCHANGED <<client, outside>>
  /\ op = "get_response" /\ pc = "for"
  /\ result' = Exhausted
  /\ pc' = "done"
  /\ UNCHANGED <<op, messages, configs, req_conf, idx, remain_try,
                 compressed_messages, record_id, exc, handle_res, records, log>>

\* the loop over self.configs is over: return None
RespExhausted ==
  /\ UNCHANGED <<client, outside>>
  /\ op = "get_response" /\ pc = "for" /\ idx >= Len(configs)
  /\ result' = Exhausted
  /\ pc' = "done"
  /\ UNCHANGED <<op, messages, configs, req_conf, idx, remain_try,
                 compressed_messages, record_id, exc, handle_res, records, log>>

\* while remain_try > 0: record_id = None; record_id = create_usage(...)
RespWhile ==
  /\ UNCHANGED <<client, outside>>
  /\ op = "get_response" /\ pc = "while"
  /\ IF remain_try > 0
       THEN /\ records' = create_usage(records, idx)
            /\ record_id' = Some(Len(records) + 1)
            /\ log' = Append(log, EvCreate(idx, Len(records) + 1))
            /\ exc' = NoExc
            /\ pc' = "created"
       ELSE /\ pc' = "for"
            /\ UNCHANGED <<records, record_id, log, exc>>
  /\ UNCHANGED <<op, messages, configs, req_conf, idx, remain_try,
                 compressed_messages, handle_res, result>>

\* RespInvoke starting the call without awaiting it
RespInvokeNotAwaited ==
  /\ UNCHANGED <<client, outside>>
  /\ op = "get_response" /\ pc = "created"
  /\ log' = Append(log, EvInvoke(idx, record_id[1],
                                 CurrentPayload(compressed_messages, messages),
                                 EffectiveMaxTokens(configs[idx], req_conf),
                                 EffectiveTemperature(configs[idx], req_conf)))
  /\ remain_try' = remain_try - 1
  /\ pc' = "while"
  /\ UNCHANGED <<op, messages, configs, req_conf, idx,
                 compressed_messages, record_id, exc, handle_res, records, result>>

\* response = await client.get_response(...): the call is started
RespInvoke ==
  /\ UNCHANGED <<client, outside>>
  /\ op = "get_response" /\ pc = "created"
  /\ log' = Append(log, EvInvoke(idx, record_id[1],
                                 CurrentPayload(compressed_messages, messages),
                                 EffectiveMaxTokens(configs[idx], req_conf),
                                 EffectiveTemperature(configs[idx], req_conf)))
  /\ pc' = "await"
  /\ UNCHANGED <<op, messages, configs, req_conf, idx, remain_try,
                 compressed_messages, record_id, exc, handle_res, records, result>>

\* RespReturn without the return statement: the loop goes on
RespReturnAndContinue ==
  /\ UNCHANGED <<client, outside>>
  /\ op = "get_response" /\ pc = "await"
  /\ \E usage \in {None, Some(<<1, 2, 3>>)} :
       /\ IF usage # None
            THEN /\ records' = update_usage(records, record_id[1], "Success")
                 /\ log' = Append(log, EvUpdate(idx, record_id[1], "Success"))
            ELSE UNCHANGED <<records, log>>
       /\ result' = Envelope(idx, Count("invoke"), usage)
  /\ pc' = "while"
  /\ UNCHANGED <<op, messages, configs, req_conf, idx, remain_try,
                 compressed_messages, record_id, exc, handle_res>>

\* the call returns a response: usage is recorded if present, and the
\* response is returned
RespReturn ==
  /\ UNCHANGED <<client, outside>>
  /\ op = "get_response" /\ pc = "await"
  /\ \E usage \in {None, Some(<<1, 2, 3>>)} :
       /\ IF usage # None
            THEN /\ records' = update_usage(records, record_id[1], "Success")
                 /\ log' = Append(log, EvUpdate(idx, record_id[1], "Success"))
            ELSE UNCHANGED <<records, log>>
       /\ result' = Envelope(idx, Count("invoke"), usage)
  /\ pc' = "done"
  /\ UNCHANGED <<op, messages, configs, req_conf, idx, remain_try,
                 compressed_messages, record_id, exc, handle_res>>

\* the call raises e: the except block up to the sleep
RespExcept ==
  /\ UNCHANGED <<client, outside>>
  /\ op = "get_response" /\ pc = "await"
  /\ \E e \in Exceptions :
       IF Caught(e) THEN
         LET hr == default_exception_handler(
                     e, Decrement(remain_try), req_conf.retry_interval,
                     Some(<<messages, compressed_messages # None>>))
         IN /\ exc' = e
            /\ records' = IF record_id # None
                            THEN update_usage(records, record_id[1], "Failure")
                            ELSE records
            /\ handle_res' = hr
            /\ log' = log \o except_events(idx, record_id, hr)
            /\ remain_try' = AfterDecision(Decrement(remain_try), hr)
            /\ IF hr[1] # -1 /\ hr[1] # 0
                 THEN /\ pc' = "sleep"
                      /\ UNCHANGED compressed_messages
                 ELSE /\ pc' = "while"
                      /\ compressed_messages' =
                           IF hr[2] # None THEN hr[2] ELSE compressed_messages
            /\ UNCHANGED result
       ELSE /\ exc' = e
            /\ result' = Raised
            /\ pc' = "done"
            /\ UNCHANGED <<records, handle_res, log, remain_try, compressed_messages>>
  /\ UNCHANGED <<op, messages, configs, req_conf, idx, record_id>>

\* RespSleepDone starting over from the caller's messages after the wait
RespSleepDoneResets ==
  /\ UNCHANGED <<client, outside>>
  /\ op = "get_response" /\ pc = "sleep"
  /\ compressed_messages' = None
  /\ pc' = "while"
  /\ UNCHANGED <<op, messages, configs, req_conf, idx, remain_try, record_id,
                 exc, handle_res, records, log, result>>

\* await asyncio.sleep(handle_res[0]) is over; then
\* if handle_res[1] is not None: compressed_messages = handle_res[1]
RespSleepDone ==
  /\ UNCHANGED <<client, outside>>
  /\ op = "get_response" /\ pc = "sleep"
  /\ compressed_messages' =
       IF handle_res[2] # None THEN handle_res[2] ELSE compressed_messages
  /\ pc' = "while"
  /\ UNCHANGED <<op, messages, configs, req_conf, idx, remain_try, record_id,
                 exc, handle_res, records, log, result>>

\* ------------------------------------------------ get_embedding (274-334)
\* for config in self.configs: ... remain_try = (...) + 1
EmbNextCandidate ==
  /\ op = "get_embedding" /\ pc = "for" /\ idx < Len(configs)
  /\ client' = client_map[model_infos[idx + 1].api_provider]
  /\ UNCHANGED outside
  /\ idx' = idx + 1
  /\ remain_try' = InitialRemainTry(configs[idx + 1], req_conf)
  /\ exc' = NoExc
  /\ pc' = "while"
  /\ UNCHANGED <<op, messages, configs, req_conf, compressed_messages, record_id,
                 handle_res, records, log, result>>

\* the loop over self.configs is over: return None
EmbExhausted ==
  /\ UNCHANGED <<client, outside>>
  /\ op = "get_embedding" /\ pc = "for" /\ idx >= Len(configs)
  /\ result' = Exhausted
  /\ pc' = "done"
  /\ UNCHANGED <<op, messages, configs, req_conf, idx, remain_try,
                 compressed_messages, record_id, exc, handle_res, records, log>>

\* while remain_try: record_id = None; record_id = create_usage(...)
EmbWhile ==
  /\ UNCHANGED <<client, outside>>
  /\ op = "get_embedding" /\ pc = "while"
  /\ IF remain_try # 0
       THEN /\ records' = create_usage(records, idx)
            /\ record_id' = Some(Len(records) + 1)
            /\ log' = Append(log, EvCreate(idx, Len(records) + 1))
            /\ exc' = NoExc
            /\ pc' = "created"
       ELSE /\ pc' = "for"
            /\ UNCHANGED <<records, record_id, log, exc>>
  /\ UNCHANGED <<op, messages, configs, req_conf, idx, remain_try,
                 compressed_messages, handle_res, result>>

\* embedding = await client.get_embedding(...): the call is started
EmbInvoke ==
  /\ UNCHANGED <<client, outside>>
  /\ op = "get_embedding" /\ pc = "created"
  /\ log' = Append(log, EvInvoke(idx, record_id[1], <<>>, 0, 0))
  /\ pc' = "await"
  /\ UNCHANGED <<op, messages, configs, req_conf, idx, remain_try,
                 compressed_messages, record_id, exc, handle_res, records, result>>

\* the call returns an embedding: return embedding
EmbReturn ==
  /\ UNCHANGED <<client, outside>>
  /\ op = "get_embedding" /\ pc = "await"
  /\ \E usage \in {None, Some(<<1, 2, 3>>)} :
       result' = Envelope(idx, Count("invoke"), usage)
  /\ pc' = "done"
  /\ UNCHANGED <<op, messages, configs, req_conf, idx, remain_try,
                 compressed_messages, record_id, exc, handle_res, records, log>>

\* the call raises e: the except block up to the sleep
EmbExcept ==
  /\ UNCHANGED <<client, outside>>
  /\ op = "get_embedding" /\ pc = "await"
  /\ \E e \in Exceptions :
       IF Caught(e) THEN
         LET hr == default_exception_handler(
                     e, Decrement(remain_try), req_conf.retry_interval,
                     default_messages)
         IN /\ exc' = e
            /\ records' = IF record_id # None
                            THEN update_usage(records, record_id[1], "Failure")
                            ELSE records
            /\ handle_res' = hr
            /\ log' = log \o except_events(idx, record_id, hr)
            /\ remain_try' = AfterDecision(Decrement(remain_try), hr)
            /\ pc' = IF hr[1] # -1 /\ hr[1] # 0 THEN "sleep" ELSE "while"
            /\ UNCHANGED result
       ELSE /\ exc' = e
            /\ result' = Raised
            /\ pc' = "done"
            /\ UNCHANGED <<records, handle_res, log, remain_try>>
  /\ UNCHANGED <<op, messages, configs, req_conf, idx, compressed_messages,
                 record_id>>

\* await asyncio.sleep(handle_res[0]) is over
EmbSleepDone ==
  /\ UNCHANGED <<client, outside>>
  /\ op = "get_embedding" /\ pc = "sleep"
  /\ pc' = "while"
  /\ UNCHANGED <<op, messages, configs, req_conf, idx, remain_try,
                 compressed_messages, record_id, exc, handle_res, records, log,
                 result>>

\* -------------------------------------------------------------------- Next
Next ==
  \/ RespNextCandidate
  \/ RespExhausted
  \/ RespWhile
  \/ RespInvoke
  \/ RespReturn
  \/ RespExcept
  \/ RespSleepDone
  \/ EmbNextCandidate
  \/ EmbExhausted
  \/ EmbWhile
  \/ EmbInvoke
  \/ EmbReturn
  \/ EmbExcept
  \/ EmbSleepDone

Spec == Init /\ [][Next]_vars

TypeOK ==
  /\ pc \in {"for", "while", "created", "await", "sleep", "done"}
  /\ idx \in 0..Len(configs)
  /\ remain_try \in 0..(MaxRetry + 1)
  /\ result.kind \in {"none", "response", "exhausted", "raised"}

\* ------------------------------------------------------ reading the log
InvokesOf(c) ==
  Cardinality({i \in 1..Len(log) : log[i].ev = "invoke" /\ log[i].cand = c})

ReplacesOf(c) ==
  Cardinality({i \in 1..Len(log) : log[i].ev = "replace" /\ log[i].cand = c})

\* the decisions taken for candidate c among the first n events
DecisionsOf(c, n) ==
  {k \in 1..n : log[k].cand = c /\ log[k].ev \in {"abort", "wait", "replace"}}

\* the trial of candidate c is over within the first n events: it was
\* aborted, or every attempt of its budget has failed
TrialEnded(c, n) ==
  \/ \E k \in DecisionsOf(c, n) : log[k].ev = "abort"
  \/ Cardinality(DecisionsOf(c, n)) = EffectiveMaxRetry(configs[c], req_conf) + 1

RECURSIVE TotalBudget(_)
TotalBudget(n) ==
  IF n = 0 THEN 0
  ELSE TotalBudget(n - 1) + EffectiveMaxRetry(configs[n], req_conf) + 1

\* ------------------------------------------------------------------ claims

\* C1: get_response and get_embedding never raise to the caller, whatever the
\* provider calls raise: a finished call has returned a response envelope or
\* None (Exhausted).
NeverRaisesToCaller ==
  /\ result.kind # "raised"
  /\ pc = "done" => result.kind \in {"response", "exhausted"}

\* an exception outside the four declared kinds was handled and the call
\* returned None
UnclassifiedHandledWitness ==
  pc = "done" /\ result = Exhausted /\ exc.type = "Exception"

EveryRecordFinalizedOnce ==
  pc = "done" =>
    /\ Count("create") = Count("invoke")
    /\ Count("update") = Count("invoke")
    /\ \A i \in 1..Len(records) :
         records[i].status # "Pending" /\ records[i].updates = 1

\* C4: once a provider invocation has succeeded the call is over with that
\* attempt's envelope, and the succeeded invocation stays the last one.
SuccessEndsDispatch ==
  result.kind = "response" =>
    /\ pc = "done"
    /\ result.cand = idx
    /\ result.call = Count("invoke")
    /\ \E i \in 1..Len(log) :
         /\ log[i].ev = "invoke" /\ log[i].cand = result.cand
         /\ \A j \in (i + 1)..Len(log) : log[j].ev # "invoke"

\* a success after an earlier failure, with a later candidate left untried
SuccessBeforeLastCandidateWitness ==
  /\ result.kind = "response" /\ pc = "done"
  /\ result.call >= 2 /\ result.cand < Len(configs)

\* C5: candidates are invoked in the configured order, one trial each; a
\* candidate is first invoked only when the trial of every earlier candidate
\* is over, and None is returned only when every trial is over.  (The log
\* only grows, so the condition on an invocation is stated for the newest
\* event: every invocation is the newest event of some reachable state.)
CandidatesInOrder ==
  /\ (Len(log) > 0 /\ log[Len(log)].ev = "invoke") =>
       LET n == Len(log) IN
         /\ log[n].cand = idx
         /\ \A j \in 1..(n - 1) : log[j].cand <= log[n].cand
         /\ \A c \in 1..(log[n].cand - 1) : TrialEnded(c, n - 1)
  /\ result = Exhausted =>
       /\ \A c \in 1..Len(configs) : TrialEnded(c, Len(log))
       /\ \A i \in 1..Len(records) : records[i].status = "Failure"

\* None returned after both candidates were tried, the second more than once
FailoverExhaustedWitness ==
  /\ result = Exhausted /\ Len(configs) = 2
  /\ InvokesOf(1) >= 1 /\ InvokesOf(2) >= 2

\* -------------------------------------------------- failure classes
IsRetryable(e) ==
  \/ e.type = "NetworkConnectionError"
  \/ e.type = "RespNotOkException" /\ (e.status_code = 429 \/ e.status_code >= 500)

IsClientError(e) ==
  e.type = "RespNotOkException" /\ e.status_code \in {400, 401, 402, 403, 404}

Is413(e) == e.type = "RespNotOkException" /\ e.status_code = 413

\* attempts candidate c has left, by its budget and its invocations so far
Remaining(c) == EffectiveMaxRetry(configs[c], req_conf) + 1 - InvokesOf(c)

\* C6: a connection failure, a 429 or a status >= 500 is answered by
\* Wait(retry_interval) when attempts remain after the failed one and by
\* Abort when none remains, compressed payload or not.
RetryableWaitsOrAborts ==
  IsRetryable(exc) =>
    /\ handle_res = (IF Remaining(idx) > 0
                       THEN <<req_conf.retry_interval, None>>
                       ELSE <<-1, None>>)
    /\ Remaining(idx) > 0 => remain_try = Remaining(idx)
    /\ Remaining(idx) = 0 => remain_try = 0 /\ pc # "sleep"

\* a 429 on an already compressed payload, with attempts left, waits
WaitWhileCompressedWitness ==
  /\ exc.type = "RespNotOkException" /\ exc.status_code = 429
  /\ compressed_messages # None
  /\ pc = "sleep" /\ handle_res = <<req_conf.retry_interval, None>>

\* C7: a status in 400..404 aborts the candidate whatever remains of its
\* budget: remain_try is 0, there is no sleep and no further event for the
\* candidate; a single candidate whose only attempt got it leaves one
\* Failure record and the call returns None.
ClientErrorAborts ==
  /\ IsClientError(exc) =>
       /\ handle_res = <<-1, None>>
       /\ remain_try = 0
       /\ pc \in {"while", "for", "done"}
       /\ log[Len(log)].ev = "abort" /\ log[Len(log)].cand = idx
       /\ pc = "done" => result = Exhausted
       /\ (pc = "done" /\ Len(configs) = 1 /\ Count("invoke") = 1) =>
            records = <<[model |-> 1, status |-> "Failure", updates |-> 1]>>
  /\ \A k \in 1..Len(log) :
       log[k].ev = "abort" => \A j \in (k + 1)..Len(log) : log[j].cand # log[k].cand

\* one candidate with retries configured, aborted by its first attempt
ClientErrorSingleCandidateWitness ==
  /\ IsClientError(exc) /\ pc = "done"
  /\ Len(configs) = 1 /\ Count("invoke") = 1
  /\ EffectiveMaxRetry(configs[1], req_conf) >= 1

\* C8: a candidate's trial sees at most one Replace; a 413 is answered by
\* Replace exactly when messages were passed (get_response) and nothing was
\* compressed yet in the trial, and by Abort otherwise.
AtMostOneReplacePerTrial ==
  /\ \A c \in 1..Len(configs) : ReplacesOf(c) <= 1
  /\ \A k \in 1..Len(log) : log[k].ev = "replace" => op = "get_response"
  /\ Is413(exc) =>
       LET shrunk == \E k \in 1..(Len(log) - 1) :
                        log[k].ev = "replace" /\ log[k].cand = idx
       IN handle_res = (IF op = "get_response" /\ ~ shrunk
                          THEN <<0, Some(compress_messages(messages))>>
                          ELSE <<-1, None>>)

\* a second 413 in a trial whose payload was already compressed: Abort
Second413AbortsWitness ==
  /\ Is413(exc) /\ op = "get_response"
  /\ ReplacesOf(idx) = 1 /\ handle_res = <<-1, None>>

\* C9: a Replace decision is followed, without a wait, by another attempt
\* against the same candidate with the compressed payload.
ReplaceIsRetried ==
  (Is413(exc) /\ handle_res[2] # None) =>
    /\ pc = "while"
    /\ remain_try > 0
    /\ compressed_messages = handle_res[2]

\* the value of an override per the precedence "candidate, else default"
Override(o, default) == IF o # None THEN o[1] ELSE default

\* C10: every attempt is made with the candidate's own max_tokens and
\* temperature when set (0 included) and the RequestConfig default
\* otherwise, and a trial starts with remain_try = that max_retry + 1.
OverridesTakePrecedence ==
  /\ \A i \in 1..Len(log) :
       (log[i].ev = "invoke" /\ op = "get_response") =>
         /\ log[i].max_tokens =
              Override(configs[log[i].cand].max_tokens, req_conf.default_max_tokens)
         /\ log[i].temperature =
              Override(configs[log[i].cand].temperature, req_conf.default_temperature)
  /\ (pc = "while" /\ idx >= 1 /\ InvokesOf(idx) = 0) =>
       remain_try = Override(configs[idx].max_retry, req_conf.max_retry) + 1

\* ------------------------------------------------------------------- C11
IsInterruption(e) == e.type = "ReqAbortException"

\* C11: an interrupted request (ReqAbortException) is answered with Abort
\* whatever the remaining attempts are; the abort ends the trial of the
\* current candidate only: the while loop is left without another attempt
\* and the for loop goes on with the next candidate in order, or returns
\* None (Exhausted) when there is none.
InterruptionAbortsCandidateOnly ==
  [][ /\ (pc = "await" /\ IsInterruption(exc'))
         => /\ handle_res' = <<-1, None>>
            /\ remain_try' = 0
            /\ pc' = "while"
            /\ result' = NoResult
      /\ (IsInterruption(exc) /\ pc = "while")
         => /\ pc' = "for"
            /\ Count("create")' = Count("create")
      /\ (IsInterruption(exc) /\ pc = "for")
         => IF idx < Len(configs)
              THEN idx' = idx + 1 /\ pc' = "while" /\ result' = NoResult
              ELSE pc' = "done" /\ result' = Exhausted
    ]_vars

\* an interruption with attempts left and a further candidate to go to
InterruptionWithBudgetWitness ==
  /\ IsInterruption(exc) /\ pc = "for"
  /\ idx < Len(configs)
  /\ InvokesOf(idx) = 1
  /\ InitialRemainTry(configs[idx], req_conf) >= 2

\* ------------------------------------------------------------------- C12
\* C12: in get_embedding a 413 is answered with Abort whatever the
\* remaining attempts are: the handler gets no messages, so it never decides
\* Replace, never returns a compressed list, and the trial of the candidate
\* ends there.
EmbeddingNeverCompresses ==
  op = "get_embedding" =>
    /\ handle_res[2] = None
    /\ compressed_messages = None
    /\ (log # <<>> => log[Len(log)].ev # "replace")
    /\ (Is413(exc) => /\ handle_res = <<-1, None>>
                       /\ remain_try = 0
                       /\ pc \in {"while", "for", "done"})

\* a 413 on the first of several attempts of an embedding candidate
Embedding413Witness ==
  /\ op = "get_embedding" /\ Is413(exc) /\ pc = "while"
  /\ InvokesOf(idx) = 1
  /\ InitialRemainTry(configs[idx], req_conf) >= 2

\* ------------------------------------------------------------------- C13
\* the step is a failed attempt: the call raised and the except block ran
FailedAttempt == pc = "await" /\ pc' \in {"while", "sleep"}

\* C13 as stated: within the trial of a candidate every failed attempt
\* lowers remain_try by exactly 1, and remain_try is never negative, in
\* get_response and in get_embedding.
FailureCostsExactlyOne ==
  [][ /\ remain_try' >= 0
      /\ FailedAttempt => remain_try' = remain_try - 1
    ]_vars

\* C13 amended: a failed attempt lowers remain_try by exactly 1 when the
\* decision is Wait or Replace and sets it to 0 when the decision is Abort;
\* within a trial remain_try never grows, and it is never negative.
FailureCostsOneOrAll ==
  [][ /\ remain_try' >= 0
      /\ FailedAttempt =>
           /\ remain_try' = IF handle_res'[1] = -1 THEN 0 ELSE remain_try - 1
           /\ remain_try' < remain_try
      /\ idx' = idx => remain_try' <= remain_try
    ]_vars

\* an embedding attempt has failed with a Wait and left one attempt of three
FailureCostsOneWitness ==
  /\ op = "get_embedding" /\ pc = "sleep"
  /\ InvokesOf(idx) = 2
  /\ remain_try = 1

\* ------------------------------------------------------------------- C14
\* The coroutine is resumed whenever the provider call or the sleep it
\* awaits has completed, and runs on its own between two awaits.
FairSpec == Spec /\ WF_vars(Next)

\* position inside one pass of the while loop, counted down
PcRank ==
  CASE pc = "sleep"   -> 4
    [] pc = "while"   -> 3
    [] pc = "created" -> 2
    [] pc = "await"   -> 1
    [] OTHER          -> 0

\* what is left of the call: candidates not yet taken, attempts left for
\* the current one, steps left in the current pass of the loop
Measure ==
  IF pc = "done" THEN 0
  ELSE 1 + (Len(configs) - idx) * (4 * (MaxRetry + 2)) + 4 * remain_try + PcRank

\* C14: every call of get_response or get_embedding terminates: every step
\* of the call lowers a natural-number measure, and when every provider call
\* and every sleep completes the call returns, with a response or with None
\* after the last candidate.
DispatchTerminates ==
  /\ [][Measure' < Measure /\ Measure' >= 0]_vars
  /\ <>(pc = "done" /\ result.kind \in {"response", "exhausted"})

\* the call has returned None after every attempt of two candidates failed
LongestRunEndedWitness ==
  /\ pc = "done" /\ result = Exhausted
  /\ Len(configs) = MaxCands
  /\ Count("invoke") = TotalBudget(Len(configs))
  /\ Count("invoke") >= 2 * MaxCands

\* ------------------------------------------------------------------- C15
\* position in the log of the decision on the last failure
LastDecision == IF log[Len(log)].ev = "sleep" THEN Len(log) - 1 ELSE Len(log)

\* C15: the record of an attempt is created before the provider is invoked
\* and nothing is recorded on it while the call is in flight; it is
\* finalized only once the call has returned or raised; after a failure it is finalized before
\* the handler decides, and the decision comes before the sleep and before
\* the record of the next attempt is created.
RecordLifecycleOrdered ==
  LET n == Len(log)
      rid == record_id[1]
  IN /\ pc = "created" =>
          /\ n >= 1 /\ log[n] = EvCreate(idx, rid)
     /\ pc = "await" =>
          /\ n >= 2 /\ log[n - 1] = EvCreate(idx, rid)
          /\ log[n].ev = "invoke" /\ log[n].id = rid
     /\ (n >= 1 /\ log[n].ev = "update" /\ log[n].stat = "Success") =>
          /\ pc = "done"
          /\ log[n - 1].ev = "invoke" /\ log[n - 1].id = log[n].id
     /\ exc # NoExc =>
          LET k == LastDecision
          IN /\ k >= 3
             /\ log[k].ev \in {"abort", "wait", "replace"}
             /\ log[k - 1] = EvUpdate(idx, rid, "Failure")
             /\ log[k - 2].ev = "invoke" /\ log[k - 2].id = rid
             /\ (k < n) = (log[k].ev = "wait")
     /\ (n >= 2 /\ log[n].ev = "create") =>
          log[n - 1].ev \in {"abort", "replace", "sleep"}

\* a second attempt is in flight after a failure, a decision and a sleep
SecondAttemptInFlightWitness ==
  /\ pc = "await" /\ Len(log) >= 7
  /\ log[Len(log) - 2].ev = "sleep"
  /\ log[Len(log) - 3].ev = "wait"
  /\ log[Len(log) - 4] = EvUpdate(idx, record_id[1] - 1, "Failure")

\* ------------------------------------------------------------------- C16
Is429(e) == e.type = "RespNotOkException" /\ e.status_code = 429

\* the except block entered with a RespNotOkException of status 429
RespExcept429 == RespExcept /\ Is429(exc')

EmbExcept429 == EmbExcept /\ Is429(exc')

\* The dispatcher against providers whose only failure is status 429.
Next429 ==
  \/ RespNextCandidate
  \/ RespExhausted
  \/ RespWhile
  \/ RespInvoke
  \/ RespReturn
  \/ RespExcept429
  \/ RespSleepDone
  \/ EmbNextCandidate
  \/ EmbExhausted
  \/ EmbWhile
  \/ EmbInvoke
  \/ EmbReturn
  \/ EmbExcept429
  \/ EmbSleepDone

Spec429 == Init /\ [][Next429]_vars

\* the sleeps of retry_interval seconds taken for candidate c
SleepsOf(c) ==
  Cardinality({i \in 1..Len(log) : /\ log[i].ev = "sleep" /\ log[i].cand = c
                                   /\ log[i].wait = req_conf.retry_interval})

\* the trial of candidate c is over and has not produced a response
TrialFailed(c) ==
  \/ c < idx
  \/ c = idx /\ pc = "for"
  \/ c <= idx /\ result = Exhausted

\* C16: a candidate whose every attempt fails with 429 is invoked exactly
\* effective max_retry + 1 times, with a sleep of retry_interval after every
\* failed attempt but the last, and is then left for the next candidate; in
\* Scenario A (X with max_retry 1 fails twice with 429, Y succeeds at once)
\* there are 3 invocations and 3 records, Failure, Failure for X and Success
\* for Y, and the call returns Y's response.
RateLimitedSchedule ==
  /\ \A c \in 1..Len(configs) :
       TrialFailed(c) =>
         /\ InvokesOf(c) = EffectiveMaxRetry(configs[c], req_conf) + 1
         /\ SleepsOf(c) = EffectiveMaxRetry(configs[c], req_conf)
  /\ ( /\ pc = "done" /\ Len(configs) = 2
       /\ EffectiveMaxRetry(configs[1], req_conf) = 1
       /\ result.kind = "response" /\ result.cand = 2
       /\ InvokesOf(2) = 1 )
     => /\ Count("invoke") = 3
        /\ result.call = 3
        /\ [i \in 1..Len(records) |-> records[i].status]
             = <<"Failure", "Failure", "Success">>

\* ------------------------------------------------------------------- C17
\* a response that cannot be parsed, an exception outside the declared kinds,
\* or a status below 500 other than 413 and 429
IsTerminal(e) ==
  \/ e.type \in {"RespParseException", "Exception"}
  \/ /\ e.type = "RespNotOkException"
     /\ e.status_code \notin {413, 429}
     /\ e.status_code < 500

\* C17: a response-parse failure, an unclassified exception and every
\* status below 500 other than 413 and 429 are answered with Abort,
\* whatever the remaining attempts and whether or not the payload has been
\* compressed: no wait, no new payload, no further attempt on the candidate.
TerminalFailureAborts ==
  IsTerminal(exc) =>
    /\ handle_res = <<-1, None>>
    /\ remain_try = 0
    /\ pc \in {"while", "for", "done"}
    /\ log[Len(log)].ev = "abort" /\ log[Len(log)].cand = idx

\* status 405 on a compressed payload with an attempt left
UnlistedStatusAbortsWitness ==
  /\ exc = [type |-> "RespNotOkException", status_code |-> 405]
  /\ compressed_messages # None
  /\ Remaining(idx) >= 1
  /\ pc = "while"

\* ------------------------------------------------------------------- C18
\* C18: within the trial of a candidate the compressed list, once set, is
\* kept as it is, and every later attempt of the trial sends it; the trial
\* of each new candidate starts without a compressed list and sends the
\* original messages.
ShrunkPayloadSticks ==
  /\ [][ /\ (idx' = idx /\ compressed_messages # None)
            => compressed_messages' = compressed_messages
         /\ idx' # idx => compressed_messages' = None
       ]_vars
  /\ []( (op = "get_response" /\ pc = "await") =>
           /\ compressed_messages # None
                => compressed_messages = Some(compress_messages(messages))
           /\ log[Len(log)].payload =
                IF compressed_messages # None THEN compressed_messages[1]
                                              ELSE messages )

\* the first candidate was sent the compressed list again after a sleep,
\* and the second candidate is sent the original messages
ShrunkThenFreshWitness ==
  /\ op = "get_response" /\ pc = "await" /\ idx = 2
  /\ compress_messages(messages) # messages
  /\ ReplacesOf(1) = 1
  /\ \E i \in 3..Len(log) :
       /\ log[i].ev = "invoke" /\ log[i].cand = 1
       /\ log[i].payload = compress_messages(messages)
       /\ log[i - 2].ev = "sleep"
  /\ log[Len(log)].payload = messages

\* ------------------------------------------------------------------- C19
\* the call ended because the task was cancelled while it was suspended
Cancelled == [kind |-> "cancelled", cand |-> 0, call |-> 0, usage |-> None]

\* The task running the call is cancelled during await asyncio.sleep(...):
\* the sleep raises CancelledError inside the except block, nothing catches
\* it, and it leaves get_response / get_embedding.
SleepCancelled ==
  /\ UNCHANGED <<client, outside>>
  /\ pc = "sleep"
  /\ result' = Cancelled
  /\ pc' = "done"
  /\ UNCHANGED <<op, messages, configs, req_conf, idx, remain_try,
                 compressed_messages, record_id, exc, handle_res, records, log>>

NextCancel == Next \/ SleepCancelled

\* The dispatcher run as a task that may be cancelled while it sleeps.
SpecCancel == Init /\ [][NextCancel]_vars

\* C19: when the call is cancelled during a wait, the wait ends at once and
\* the cancellation counts as an interruption failure of the current
\* candidate: the call goes on at the next attempt boundary with no attempt
\* left for this candidate, and has not returned.
CancelledWaitAbortsCandidate ==
  [][ (pc = "sleep" /\ result'.kind = "cancelled")
        => /\ pc' = "while"
           /\ remain_try' = 0
           /\ IsInterruption(exc')
    ]_vars

\* ------------------------------------------------------------------- C20
\* the invocations that have been started and have neither raised (their
\* record is finalized right after) nor returned (the call is over)
InFlight ==
  IF pc = "done" THEN {}
  ELSE {i \in 1..Len(log) :
          /\ log[i].ev = "invoke"
          /\ ~(i < Len(log) /\ log[i + 1].ev = "update"
                            /\ log[i + 1].id = log[i].id)}

\* C20: within one call at most one provider invocation is in flight: there
\* is one exactly while the call awaits the provider, it belongs to the
\* current candidate, and none is left when the next attempt or the next
\* candidate is started.
OneInvocationInFlight ==
  /\ Cardinality(InFlight) <= 1
  /\ (InFlight # {}) = (pc = "await")
  /\ \A i \in InFlight : i = Len(log) /\ log[i].cand = idx

\* a candidate is invoked after three resolved invocations of the one before
FourthInvocationAloneWitness ==
  /\ pc = "await" /\ idx = 2
  /\ InvokesOf(1) = 3
  /\ InFlight = {Len(log)}

\* ------------------------------------------------------------------- C21
\* Two calls on one handler, as two coroutines of one event loop: the
\* variables of the call hold the frame of the coroutine that runs, `other`
\* the frame of the one that does not.

\* what a call keeps in its own frame: its arguments and its locals
Frame ==
  [op |-> op, messages |-> messages, pc |-> pc, idx |-> idx,
   remain_try |-> remain_try, compressed_messages |-> compressed_messages,
   record_id |-> record_id, exc |-> exc, handle_res |-> handle_res,
   log |-> log, result |-> result, client |-> client]

\* StartFrame of a handler whose loop over the candidates goes on where the
\* last call on the handler left it
StartFrameResumed(o, msgs) ==
  [op |-> o, messages |-> msgs, pc |-> "for", idx |-> idx,
   remain_try |-> 0, compressed_messages |-> None,
   record_id |-> None, exc |-> NoExc, handle_res |-> <<0, None>>,
   log |-> <<>>, result |-> NoResult, client |-> NoClient]

\* the frame of a call that has not run yet
StartFrame(o, msgs) ==
  [op |-> o, messages |-> msgs, pc |-> "for", idx |-> 0,
   remain_try |-> 0, compressed_messages |-> None,
   record_id |-> None, exc |-> NoExc, handle_res |-> <<0, None>>,
   log |-> <<>>, result |-> NoResult, client |-> NoClient]

\* AtAwait with a sleep that blocks the event loop (time.sleep)
AtAwaitBlockingSleep == pc = "await"

\* the call is suspended in one of its await expressions: the provider call
\* or asyncio.sleep
AtAwait == pc \in {"await", "sleep"}

\* the event loop runs the other coroutine: the running call is suspended
\* at an await or has returned
Switch ==
  /\ other # None
  /\ AtAwait \/ pc = "done"
  /\ other[1].pc # "done"
  /\ op' = other[1].op
  /\ messages' = other[1].messages
  /\ pc' = other[1].pc
  /\ idx' = other[1].idx
  /\ remain_try' = other[1].remain_try
  /\ compressed_messages' = other[1].compressed_messages
  /\ record_id' = other[1].record_id
  /\ exc' = other[1].exc
  /\ handle_res' = other[1].handle_res
  /\ log' = other[1].log
  /\ result' = other[1].result
  /\ client' = other[1].client
  /\ other' = Some(Frame)
  /\ UNCHANGED <<configs, req_conf, records, handler_fields, manager_state,
                 stub, client_call, raised,
                 message_vars>>

\* the failures that lead to the three decisions: Abort, Replace, Wait
FewExceptions ==
  {e \in Exceptions : e.type = "RespNotOkException"
                        /\ e.status_code \in {404, 413, 429}}

RespExceptFew == RespExcept /\ exc' \in FewExceptions

EmbExceptFew == EmbExcept /\ exc' \in FewExceptions

\* the candidate lists the two calls run over: one candidate, and two
ConcConfigs ==
  { <<ModelUsageConfigItem(None, None, None)>>,
    <<ModelUsageConfigItem(None, None, None),
      ModelUsageConfigItem(None, None, None)>> }

\* the arguments of the two calls: two get_response calls on a list that
\* can be compressed, a get_response and a get_embedding call, two
\* get_embedding calls
ConcCalls ==
  LET big == CHOOSE m \in MessageInputs : compress_messages(m) # m
  IN { <<StartFrame("get_response", big), StartFrame("get_response", big)>>,
       <<StartFrame("get_response", big), StartFrame("get_embedding", <<>>)>>,
       <<StartFrame("get_embedding", <<>>), StartFrame("get_embedding", <<>>)>> }

ConcInit ==
  /\ \E c \in ConcCalls :
       /\ op = c[1].op
       /\ messages = c[1].messages
       /\ other = Some(c[2])
  /\ configs \in ConcConfigs
  /\ req_conf \in {rc \in RequestConfigs : Len(configs) * (rc.max_retry + 1) <= 2}
  /\ pc = "for"
  /\ idx = 0
  /\ remain_try = 0
  /\ compressed_messages = None
  /\ record_id = None
  /\ exc = NoExc
  /\ handle_res = <<0, None>>
  /\ log = <<>>
  /\ result = NoResult
  /\ client = NoClient
  /\ records = <<>>
  /\ task_name = "task1"
  /\ model_infos = [i \in 1..Len(configs) |-> config_models[ModelNameAt(i)]]
  /\ api_client_map = manager_clients
  /\ client_map = handler_client_map(model_infos, api_client_map)
  /\ task_model_usage_map = <<>>
  /\ lookup = None
  /\ stub = None
  /\ client_call = None
  /\ raised = None
  /\ builder = NewBuilder
  /\ built = <<>>
  /\ last_call = None

ConcNext ==
  \/ RespNextCandidate
  \/ RespExhausted
  \/ RespWhile
  \/ RespInvoke
  \/ RespReturn
  \/ RespExceptFew
  \/ RespSleepDone
  \/ EmbNextCandidate
  \/ EmbExhausted
  \/ EmbWhile
  \/ EmbInvoke
  \/ EmbReturn
  \/ EmbExceptFew
  \/ EmbSleepDone
  \/ Switch

ConcSpec == ConcInit /\ [][ConcNext]_vars

\* the failed attempts of the running call against its current candidate
FailuresOf(c) == Cardinality(DecisionsOf(c, Len(log)))

\* the locals of the running call are what its own attempts make them
RunsAsAlone ==
  /\ pc \in {"while", "created", "await", "sleep"} =>
       remain_try =
         IF \E k \in DecisionsOf(idx, Len(log)) : log[k].ev = "abort" THEN 0
         ELSE InitialRemainTry(configs[idx], req_conf) - FailuresOf(idx)
  /\ (compressed_messages # None) = (idx >= 1 /\ ReplacesOf(idx) >= 1)
  /\ (op = "get_response" /\ pc = "await") =>
       log[Len(log)].payload =
         IF ReplacesOf(idx) >= 1 THEN compress_messages(messages) ELSE messages
  /\ result.kind = "response" =>
       /\ result.cand = idx /\ result.call = Count("invoke")
       /\ log[Len(log)].cand = idx
       /\ log[Len(log)].ev \in {"invoke", "update"}
  /\ result.kind = "exhausted" => idx = Len(configs)

\* C21: of two calls interleaved on one handler, each has its remain_try,
\* its payload and its compressed list to itself: a step of one call leaves
\* the frame of the other, the handler and every record of the other call
\* as they are; the locals and the outcome of a call follow from its own
\* attempts as when it runs alone; and while one call sleeps the other can
\* run.
ConcurrentCallsIsolated ==
  /\ [][ /\ IF other' # other
              THEN /\ AtAwait \/ pc = "done"
                   /\ Frame' = other[1]
                   /\ other' = Some(Frame)
                   /\ records' = records
              ELSE \A id \in 1..Len(records) :
                     records'[id] # records[id] => record_id = Some(id)
         /\ configs' = configs /\ req_conf' = req_conf
         /\ handler_fields' = handler_fields
       ]_vars
  /\ [] RunsAsAlone
  /\ []( (pc = "sleep" /\ other[1].pc # "done") => ENABLED Switch )

\* one call awaits the provider with the original messages while the other
\* sleeps before its second attempt
AwaitWhileOtherSleepsWitness ==
  /\ other # None
  /\ op = "get_response" /\ pc = "await"
  /\ other[1].op = "get_response" /\ other[1].pc = "sleep"
  /\ log[Len(log)].payload = messages
  /\ Len(other[1].log) >= 5


\* ------------------------------------------- two calls, one after the other
\* A provider that answers by the request alone: the outcome of an attempt
\* is a function of the candidate and of whether the payload is the
\* caller's or a compressed one.
StubOutcome(ok, usage, e) == [ok |-> ok, usage |-> usage, exc |-> e]

StubOutcomes ==
  { StubOutcome(TRUE, None, NoExc), StubOutcome(TRUE, Some(<<1, 2, 3>>), NoExc) }
    \cup { StubOutcome(FALSE, None, e) : e \in FewExceptions }

\* the request of the attempt in flight, as the stub sees it
StubKey == <<idx, log[Len(log)].payload # messages>>

\* the stubbed call returns
RespReturnStub ==
  /\ pc = "await" /\ stub[1][StubKey].ok
  /\ RespReturn
  /\ result'.usage = stub[1][StubKey].usage

\* the stubbed call raises
RespExceptStub ==
  /\ pc = "await" /\ ~stub[1][StubKey].ok
  /\ RespExcept
  /\ exc' = stub[1][StubKey].exc

EmbReturnStub ==
  /\ pc = "await" /\ stub[1][StubKey].ok
  /\ EmbReturn
  /\ result'.usage = stub[1][StubKey].usage

EmbExceptStub ==
  /\ pc = "await" /\ ~stub[1][StubKey].ok
  /\ EmbExcept
  /\ exc' = stub[1][StubKey].exc

\* a call on the handler after the last one has returned: a new frame
CallAgain ==
  /\ pc = "done" /\ other = None
  /\ \E o \in {op, "get_embedding"} :
       LET f == StartFrame(o, IF o = op THEN messages ELSE <<>>) IN
         /\ op' = f.op
         /\ messages' = f.messages
         /\ pc' = f.pc
         /\ idx' = f.idx
         /\ remain_try' = f.remain_try
         /\ compressed_messages' = f.compressed_messages
         /\ record_id' = f.record_id
         /\ exc' = f.exc
         /\ handle_res' = f.handle_res
         /\ log' = f.log
         /\ result' = f.result
         /\ client' = f.client
  /\ other' = Some(Frame)
  /\ UNCHANGED <<configs, req_conf, records, handler_fields, manager_state,
                 stub, client_call, raised,
                 message_vars>>

TwiceInit ==
  /\ op \in {"get_response", "get_embedding"}
  /\ messages = (IF op = "get_response"
                   THEN CHOOSE m \in MessageInputs : compress_messages(m) # m
                   ELSE <<>>)
  /\ configs \in ConcConfigs
  /\ req_conf \in RequestConfigs
  /\ stub \in { Some(f) : f \in [(1..Len(configs)) \X BOOLEAN -> StubOutcomes] }
  /\ pc = "for"
  /\ idx = 0
  /\ remain_try = 0
  /\ compressed_messages = None
  /\ record_id = None
  /\ exc = NoExc
  /\ handle_res = <<0, None>>
  /\ records = <<>>
  /\ log = <<>>
  /\ result = NoResult
  /\ client = NoClient
  /\ task_name = "task1"
  /\ model_infos = [i \in 1..Len(configs) |-> config_models[ModelNameAt(i)]]
  /\ api_client_map = manager_clients
  /\ client_map = handler_client_map(model_infos, api_client_map)
  /\ task_model_usage_map = <<>>
  /\ lookup = None
  /\ other = None
  /\ client_call = None
  /\ raised = None
  /\ builder = NewBuilder
  /\ built = <<>>
  /\ last_call = None

TwiceNext ==
  \/ RespNextCandidate
  \/ RespExhausted
  \/ RespWhile
  \/ RespInvoke
  \/ RespReturnStub
  \/ RespExceptStub
  \/ RespSleepDone
  \/ EmbNextCandidate
  \/ EmbExhausted
  \/ EmbWhile
  \/ EmbInvoke
  \/ EmbReturnStub
  \/ EmbExceptStub
  \/ EmbSleepDone
  \/ CallAgain

TwiceSpec == TwiceInit /\ [][TwiceNext]_vars

\* the events of a call without the record ids, which number the store
StripIds(l) == [i \in 1..Len(l) |-> [l[i] EXCEPT !.id = 0]]

IsPrefix(s, t) == Len(s) <= Len(t) /\ s = SubSeq(t, 1, Len(s))

\* C22: the second of two calls with the same inputs against a provider that
\* answers by the request alone goes through the same events as the first
\* (record creations and finalizations with candidate and status,
\* invocations with their payload and limits, decisions and waits), in the
\* same order, and returns the same outcome; only the record ids differ.
SameInputsSameRun ==
  (other # None /\ op = other[1].op /\ messages = other[1].messages)
    => /\ IsPrefix(StripIds(log), StripIds(other[1].log))
       /\ pc = "done" => /\ StripIds(log) = StripIds(other[1].log)
                         /\ result = other[1].result

SecondRunSameWitness ==
  /\ other # None /\ pc = "done"
  /\ op = "get_response" /\ other[1].op = "get_response"
  /\ result.kind = "response" /\ result.cand = 2
  /\ Count("replace") >= 1 /\ Count("sleep") >= 1
  /\ Len(records) = 2 * Count("create")

\* the steps of the loop a call went through: record creations and
\* finalizations, invocations, decisions and waits, without what the two
\* methods pass to the client and without the record ids
LoopEvents(l) ==
  [i \in 1..Len(l) |->
     [l[i] EXCEPT !.id = 0, !.payload = <<>>, !.max_tokens = 0,
                  !.temperature = 0]]

\* the provider never answers 413
No413 == \A k \in DOMAIN stub[1] : stub[1][k].exc.status_code # 413

\* C23: against a provider that never answers 413, get_embedding goes
\* through the same invocations, waits, record creations and finalizations
\* as get_response does, and ends with the same kind of outcome.
EmbeddingSameLoop ==
  (other # None /\ other[1].op = "get_response" /\ op = "get_embedding"
     /\ pc = "done" /\ No413)
    => /\ LoopEvents(log) = LoopEvents(other[1].log)
       /\ result.kind = other[1].result.kind

\* ------------------------------------------------------ provider clients
\* The clients wrap the provider library; what a client method raises is a
\* function of the client, the method, model_info.force_stream_mode, whether
\* the caller passed a stream_response_handler, and what the library call
\* does:
\*   "ok"            a response the parser (or handler) accepts
\*   "unparseable"   a response the parser (or handler) rejects with
\*                   RespParseException
\*   "connection"    the library's connection error
\*   "status"        the library's HTTP status error, with its status code
\*   "function_call" genai's function-call errors
\*   "other"         any other exception of the library
\*   "interrupted"   the interrupt flag is set while the request is pending
\*                   (GeminiClient.get_response polls it)
Lib(kind, code) == [kind |-> kind, status_code |-> code]

LibOutcomes ==
  { Lib(k, 0) : k \in {"ok", "unparseable", "connection", "other"} }
    \cup { Lib("status", c) : c \in StatusCodes }

GeminiLibOutcomes ==
  LibOutcomes \cup { Lib("function_call", 0), Lib("interrupted", 0) }

\* what reaches the caller of a client method: Exc("none", 0) is a return
Exc(type, code) == [type |-> type, status_code |-> code]

\* OpenaiClient.get_response
openai_get_response(force_stream_mode, handler_given, lib) ==
  IF force_stream_mode
    THEN \* try: ... except Exception: raise
         CASE lib.kind = "ok" ->
                IF handler_given THEN Exc("none", 0)
                ELSE Exc("RuntimeError", 0)   \* _default_stream_response_handler
           [] lib.kind = "unparseable" ->
                IF handler_given THEN Exc("RespParseException", 0)
                ELSE Exc("RuntimeError", 0)
           [] lib.kind = "connection" -> Exc("APIConnectionError", 0)
           [] lib.kind = "status" -> Exc("APIStatusError", lib.status_code)
           [] OTHER -> Exc("Exception", 0)
    ELSE CASE lib.kind = "ok" -> Exc("none", 0)
           [] lib.kind = "unparseable" -> Exc("RespParseException", 0)
           [] lib.kind = "connection" -> Exc("NetworkConnectionError", 0)
           [] lib.kind = "status" -> Exc("RespNotOkException", lib.status_code)
           [] OTHER -> Exc("Exception", 0)

\* OpenaiClient.get_embedding
openai_get_embedding(lib) ==
  CASE lib.kind = "ok" -> Exc("none", 0)
    [] lib.kind = "unparseable" -> Exc("RespParseException", 0)
    [] lib.kind = "connection" -> Exc("NetworkConnectionError", 0)
    [] lib.kind = "status" -> Exc("RespNotOkException", lib.status_code)
    [] OTHER -> Exc("Exception", 0)

\* GeminiClient.get_response: with no stream_response_handler the method
\* awaits the function _default_stream_response_handler itself (TypeError);
\* RespParseException raised inside the try is caught by `except Exception`
gemini_get_response(force_stream_mode, handler_given, lib) ==
  IF ~handler_given THEN Exc("TypeError", 0)
  ELSE CASE lib.kind = "ok" -> Exc("none", 0)
         [] lib.kind = "status" -> Exc("RespNotOkException", lib.status_code)
         [] lib.kind = "function_call" -> Exc("ValueError", 0)
         [] OTHER -> Exc("NetworkConnectionError", 0)

\* GeminiClient.get_embedding
gemini_get_embedding(lib) ==
  CASE lib.kind = "ok" -> Exc("none", 0)
    [] lib.kind = "unparseable" -> Exc("RespParseException", 0)
    [] lib.kind = "status" -> Exc("RespNotOkException", lib.status_code)
    [] OTHER -> Exc("NetworkConnectionError", 0)

ClientCall(c, m, s, h, lib) ==
  [client |-> c, method |-> m, force_stream_mode |-> s, handler_given |-> h,
   lib |-> lib]

\* the variables of a call of the dispatcher
call_vars == <<op, messages, pc, idx, remain_try, compressed_messages,
               record_id, exc, handle_res, log, result, client>>

\* what a client method call leaves alone
not_client == <<call_vars, configs, req_conf, records, handler_fields,
                manager_state, other, stub, message_vars>>

OpenaiGetResponse ==
  /\ \E s \in BOOLEAN, h \in BOOLEAN, lib \in LibOutcomes :
       /\ client_call' = Some(ClientCall("openai", "get_response", s, h, lib))
       /\ raised' = Some(openai_get_response(s, h, lib))
  /\ UNCHANGED not_client

OpenaiGetEmbedding ==
  /\ \E lib \in LibOutcomes :
       /\ client_call' = Some(ClientCall("openai", "get_embedding", FALSE, FALSE, lib))
       /\ raised' = Some(openai_get_embedding(lib))
  /\ UNCHANGED not_client

GeminiGetResponse ==
  /\ \E s \in BOOLEAN, h \in BOOLEAN, lib \in GeminiLibOutcomes :
       /\ client_call' = Some(ClientCall("gemini", "get_response", s, h, lib))
       /\ raised' = Some(gemini_get_response(s, h, lib))
  /\ UNCHANGED not_client

GeminiGetEmbedding ==
  /\ \E lib \in LibOutcomes :
       /\ client_call' = Some(ClientCall("gemini", "get_embedding", FALSE, FALSE, lib))
       /\ raised' = Some(gemini_get_embedding(lib))
  /\ UNCHANGED not_client

ClientInit ==
  /\ op = "get_response"
  /\ messages = <<>>
  /\ configs = <<ModelUsageConfigItem(None, None, None)>>
  /\ req_conf \in {rc \in RequestConfigs : rc.max_retry = 0}
  /\ pc = "for"
  /\ idx = 0
  /\ remain_try = 0
  /\ compressed_messages = None
  /\ record_id = None
  /\ exc = NoExc
  /\ handle_res = <<0, None>>
  /\ records = <<>>
  /\ log = <<>>
  /\ result = NoResult
  /\ client = NoClient
  /\ task_name = "task1"
  /\ model_infos = [i \in 1..Len(configs) |-> config_models[ModelNameAt(i)]]
  /\ api_client_map = manager_clients
  /\ client_map = handler_client_map(model_infos, api_client_map)
  /\ task_model_usage_map = <<>>
  /\ lookup = None
  /\ other = None
  /\ stub = None
  /\ client_call = None
  /\ raised = None
  /\ builder = NewBuilder
  /\ built = <<>>
  /\ last_call = None

ClientNext ==
  \/ OpenaiGetResponse
  \/ OpenaiGetEmbedding
  \/ GeminiGetResponse
  \/ GeminiGetEmbedding

ClientSpec == ClientInit /\ [][ClientNext]_vars

\* C24: whatever a client's get_response or get_embedding raises, in
\* streaming and in non-streaming mode, is one of the four declared kinds
\* (NetworkConnectionError, ReqAbortException, RespNotOkException,
\* RespParseException).
ClientFailuresDeclared ==
  raised # None => raised[1].type \in DeclaredTypes \cup {"none"}

\* ------------------------------------------------------------- waits
\* C25: a Wait(d) decision with d > 0 suspends the call for exactly
\* req_conf.retry_interval (d is that interval, and the sleep ends by
\* itself), the candidate still has budget, and the attempt that follows
\* is made against the same candidate with the payload of the failed
\* attempt; neither the decision nor the wait changes compressed_messages
\* (the payload and the "already compressed" flag).
WaitKeepsCandidateAndPayload ==
  /\ [](pc = "sleep" => /\ handle_res = <<req_conf.retry_interval, None>>
                        /\ log[Len(log)] = EvSleep(idx, req_conf.retry_interval)
                        /\ log[Len(log) - 1].ev = "wait"
                        /\ remain_try > 0)
  /\ [][ /\ pc' = "sleep" => /\ idx' = idx
                             /\ compressed_messages' = compressed_messages
         /\ pc = "sleep" => /\ pc' = "while"
                            /\ idx' = idx
                            /\ compressed_messages' = compressed_messages
                            /\ remain_try' = remain_try
                            /\ log' = log
         /\ (pc = "created" /\ Len(log) >= 5 /\ log[Len(log) - 1].ev = "sleep")
              => /\ pc' = "await"
                 /\ log[Len(log) - 4].ev = "invoke"
                 /\ log'[Len(log')].ev = "invoke"
                 /\ log'[Len(log')].cand = log[Len(log) - 4].cand
                 /\ log'[Len(log')].payload = log[Len(log) - 4].payload
       ]_vars

\* a compressed payload was refused with a Wait, and after the wait the
\* same compressed payload is sent to the same candidate
CompressedResentAfterWaitWitness ==
  /\ op = "get_response" /\ pc = "await"
  /\ Len(log) >= 6
  /\ log[Len(log) - 2].ev = "sleep"
  /\ log[Len(log)].payload # messages
  /\ log[Len(log)].payload = log[Len(log) - 5].payload

\* ------------------------------------------------------------ ModelManager
\* manager.config.task_model_usage_map: task name -> the usage list of its
\* ModelUsageConfig; an entry of the list names a model and carries the
\* overrides (the model keeps them apart as name and config).
Tasks == {"task1", "task2"}

ModelUsage(n, c) == [name |-> n, config |-> c]

\* the usage lists registered: an empty one (as in the tests), one with
\* three models of which the first and the third share a provider, and
\* one that names a model manager.config.models does not have
UsageConfigs ==
  LET plain == ModelUsageConfigItem(None, None, None) IN
    { <<>>,
      <<ModelUsage("m1", plain), ModelUsage("m2", plain), ModelUsage("m3", plain)>>,
      <<ModelUsage("m1", plain), ModelUsage("unknown", plain)>> }

\* the outcome of an operation on the manager, or of the construction of a
\* handler: what was asked, the value passed if any, and what came back (a
\* value or an exception)
Outcome(o, t, v, res) == [op |-> o, task |-> t, value |-> v, outcome |-> res]

\* d[k] = v that keeps the entry already there
dict_setdefault(d, k, v) ==
  IF k \in DOMAIN d THEN d
  ELSE [x \in DOMAIN d \cup {k} |-> IF x = k THEN v ELSE d[x]]

\* d[k] = v on a dict
dict_setitem(d, k, v) ==
  [x \in DOMAIN d \cup {k} |-> IF x = k THEN v ELSE d[x]]

\* Python binding keyword arguments to a function's parameters (all of
\* them required): any keyword that is not a parameter, or any parameter
\* left without a value, is a TypeError
binds(kwargs, params) == kwargs = params

\* the parameters of ModelRequestHandler.__init__ after self
handler_init_params == {"task_name", "manager"}

\* the keyword arguments ModelManager.__getitem__ passes to it
getitem_kwargs == {"task_name", "usage_statistic", "config", "api_client_map"}

\* what a manager operation leaves alone
not_manager == <<call_vars, configs, req_conf, records, handler_fields,
                 api_client_map, other, stub, client_call, raised,
                 message_vars>>

\* SetItem that also rebuilds the candidates of the handler of the task
SetItemRefreshing ==
  /\ \E t \in Tasks, value \in UsageConfigs :
       /\ task_model_usage_map' = dict_setitem(task_model_usage_map, t, value)
       /\ lookup' = Some(Outcome("setitem", t, value, "None"))
       /\ configs' = IF t = task_name
                       THEN [i \in 1..Len(value) |-> value[i].config]
                       ELSE configs
  /\ UNCHANGED <<call_vars, req_conf, records, handler_fields,
                 api_client_map, other, stub, client_call, raised,
                 message_vars>>

\* ModelManager.__setitem__: manager[task_name] = value
SetItem ==
  /\ \E t \in Tasks, value \in UsageConfigs :
       /\ task_model_usage_map' = dict_setitem(task_model_usage_map, t, value)
       /\ lookup' = Some(Outcome("setitem", t, value, "None"))
  /\ UNCHANGED not_manager

\* GetItem on a map that makes an entry for a task it does not know
GetItemDefaulting ==
  /\ \E t \in Tasks :
       IF t \notin DOMAIN task_model_usage_map
         THEN /\ lookup' = Some(Outcome("getitem", t, None, "KeyError"))
              /\ task_model_usage_map' = dict_setitem(task_model_usage_map, t, <<>>)
         ELSE /\ lookup' = Some(Outcome("getitem", t, None,
                               IF binds(getitem_kwargs, handler_init_params)
                                 THEN "ModelRequestHandler" ELSE "TypeError"))
              /\ UNCHANGED task_model_usage_map
  /\ UNCHANGED not_manager

\* ModelManager.__getitem__: manager[task_name]
GetItem ==
  /\ \E t \in Tasks :
       IF t \notin DOMAIN task_model_usage_map
         THEN lookup' = Some(Outcome("getitem", t, None, "KeyError"))
         ELSE lookup' = Some(Outcome("getitem", t, None,
                               IF binds(getitem_kwargs, handler_init_params)
                                 THEN "ModelRequestHandler" ELSE "TypeError"))
  /\ UNCHANGED task_model_usage_map
  /\ UNCHANGED not_manager

\* ModelManager.__contains__: task_name in manager
Contains ==
  /\ \E t \in Tasks :
       lookup' = Some(Outcome("contains", t, None,
                              IF t \in DOMAIN task_model_usage_map
                                THEN "True" ELSE "False"))
  /\ UNCHANGED task_model_usage_map
  /\ UNCHANGED not_manager

\* ModelRequestHandler(task_name, manager): the constructor called as it is
\* declared. task_name = "" stands for "no handler built yet".
HandlerInit ==
  /\ task_name = ""
  /\ \E t \in Tasks :
       IF t \notin DOMAIN task_model_usage_map
            \/ \E i \in 1..Len(task_model_usage_map[t]) :
                 task_model_usage_map[t][i].name \notin DOMAIN config_models
         THEN /\ lookup' = Some(Outcome("init", t, None, "KeyError"))
              /\ UNCHANGED <<task_name, client_map, model_infos, configs>>
         ELSE LET usage == task_model_usage_map[t]
                  infos == [i \in 1..Len(usage) |-> config_models[usage[i].name]]
              IN /\ task_name' = t
                 /\ model_infos' = infos
                 /\ client_map' = handler_client_map(infos, api_client_map)
                 /\ configs' = [i \in 1..Len(usage) |-> usage[i].config]
                 /\ lookup' = Some(Outcome("init", t, None, "ModelRequestHandler"))
  /\ UNCHANGED <<call_vars, req_conf, records, task_model_usage_map,
                 api_client_map, other, stub, client_call, raised,
                 message_vars>>

\* the first call on the handler built
HandlerCall ==
  /\ task_name # "" /\ pc = "done" /\ result = NoResult
  /\ \E o \in {"get_response", "get_embedding"} :
       LET f == StartFrame(o, <<>>) IN
         /\ op' = f.op
         /\ messages' = f.messages
         /\ pc' = f.pc
         /\ idx' = f.idx
         /\ remain_try' = f.remain_try
         /\ compressed_messages' = f.compressed_messages
         /\ record_id' = f.record_id
         /\ exc' = f.exc
         /\ handle_res' = f.handle_res
         /\ log' = f.log
         /\ result' = f.result
         /\ client' = f.client
  /\ UNCHANGED <<configs, req_conf, records, outside>>

ManagerInit ==
  /\ task_model_usage_map \in { <<>>, [t \in {"task1"} |-> <<>>] }
  /\ api_client_map = manager_clients
  /\ lookup = None
  /\ req_conf \in {rc \in RequestConfigs : rc.max_retry = 1}
  /\ records = <<>>
  /\ task_name = ""
  /\ configs = <<>>
  /\ model_infos = <<>>
  /\ client_map = <<>>
  /\ op = "get_response"
  /\ messages = <<>>
  /\ pc = "done"
  /\ idx = 0
  /\ remain_try = 0
  /\ compressed_messages = None
  /\ record_id = None
  /\ exc = NoExc
  /\ handle_res = <<0, None>>
  /\ log = <<>>
  /\ result = NoResult
  /\ client = NoClient
  /\ other = None
  /\ stub = None
  /\ client_call = None
  /\ raised = None
  /\ builder = NewBuilder
  /\ built = <<>>
  /\ last_call = None

ManagerNext ==
  \/ SetItem
  \/ GetItem
  \/ Contains
  \/ HandlerInit
  \/ HandlerCall
  \/ RespNextCandidate
  \/ RespExhausted
  \/ RespWhile
  \/ RespInvoke
  \/ RespReturn
  \/ RespExcept429
  \/ RespSleepDone
  \/ EmbNextCandidate
  \/ EmbExhausted
  \/ EmbWhile
  \/ EmbInvoke
  \/ EmbReturn
  \/ EmbExcept429
  \/ EmbSleepDone

ManagerSpec == ManagerInit /\ [][ManagerNext]_vars

\* C26: once a handler is built, its candidates (self.configs: the models
\* and their overrides, in order) never change: not by a step of
\* get_response or get_embedding, and not by a registration on the manager,
\* of the handler's own task or of another.
CandidatesFixedAtConstruction ==
  [][ task_name # "" => /\ configs' = configs
                        /\ model_infos' = model_infos
                        /\ task_name' = task_name ]_vars

\* the handler's task was registered again, with another usage list, while
\* a call on the handler was trying its second candidate
ReregisteredDuringCallWitness ==
  /\ task_name # "" /\ Len(configs) = 3
  /\ pc = "await" /\ idx = 2
  /\ lookup # None /\ lookup[1].op = "setitem" /\ lookup[1].task = task_name
  /\ Len(task_model_usage_map[task_name]) # Len(configs)

\* the providers the handler's candidates use
ProvidersUsed == {model_infos[i].api_provider : i \in 1..Len(model_infos)}

\* C27: a handler built holds one client for each provider its candidates
\* use and for no other, each of them the instance the manager holds for
\* that provider, and an attempt against a candidate goes through the client
\* of the candidate's provider (so candidates of one provider share it).
OneSharedClientPerProvider ==
  task_name # ""
    => /\ DOMAIN client_map = ProvidersUsed
       /\ \A p \in DOMAIN client_map : client_map[p] = api_client_map[p]
       /\ (pc \in {"while", "created", "await", "sleep"})
            => client = api_client_map[model_infos[idx].api_provider]

\* the third candidate is tried through the client the first one used,
\* after the second went through another
SharedClientWitness ==
  /\ task_name # "" /\ pc = "await" /\ idx = 3
  /\ model_infos[1].api_provider = model_infos[3].api_provider
  /\ model_infos[2].api_provider # model_infos[3].api_provider
  /\ client = client_map[model_infos[1].api_provider]
  /\ client = ClientInstance("p1", 1)

\* a step that is the lookup manager[t]
IsGetItem(t) ==
  /\ lookup' # lookup
  /\ lookup'[1].op = "getitem"
  /\ lookup'[1].task = t

\* C28: manager[t] for a registered task t returns a ModelRequestHandler
\* (whose task_name is t).
LookupReturnsHandler ==
  [][ \A t \in DOMAIN task_model_usage_map :
        IsGetItem(t) => lookup'[1].outcome = "ModelRequestHandler" ]_vars

\* C29: manager[t] for a task t that is not registered raises KeyError and
\* leaves the registered tasks, and their configurations, as they were.
UnregisteredLookupRaisesKeyError ==
  [][ \A t \in Tasks \ DOMAIN task_model_usage_map :
        IsGetItem(t) => /\ lookup'[1].outcome = "KeyError"
                        /\ task_model_usage_map' = task_model_usage_map ]_vars

\* task2 was looked up and refused while task1 was registered, and is
\* still not registered
KeyErrorWitness ==
  /\ lookup = Some(Outcome("getitem", "task2", None, "KeyError"))
  /\ DOMAIN task_model_usage_map = {"task1"}
  /\ Len(task_model_usage_map["task1"]) = 3

\* a step that is the registration manager[t] = some value
IsSetItem(t) ==
  /\ lookup' # lookup
  /\ lookup'[1].op = "setitem"
  /\ lookup'[1].task = t

ProviderNames == {"p1", "p2", "p3", "p4"}

ClientTypes == {"openai", "gemini", "invalid_client"}

ClientModules == {"openai", "gemini"}

APIProvider(n, ct) == [name |-> n, client_type |-> ct]

\* the provider maps a manager is constructed with, each provider under
\* its own name
ApiProviderMaps ==
  UNION { [S -> ClientTypes] : S \in SUBSET ProviderNames }

\* str.capitalize() + "Client" for the client types at hand
ClientClassName(ct) ==
  IF ct = "openai" THEN "OpenaiClient"
  ELSE IF ct = "gemini" THEN "GeminiClient"
  ELSE "Invalid_clientClient"

\* client_class(api_provider): BaseClient.__init__ keeps the provider
client_class(ct, api_provider) ==
  [class |-> ClientClassName(ct), api_provider |-> api_provider]

\* importlib.import_module(f".model_client.{client_type}_client") fails
import_fails(ct) == ct \notin ClientModules

\* construct that logs a provider whose module is missing and goes on
\* with the others
construct_skipping(types) ==
  LET ok == {n \in DOMAIN types : ~import_fails(types[n])} IN
    <<"ModelManager",
      [n \in ok |-> client_class(types[n], APIProvider(n, types[n]))]>>

\* ModelManager.__init__ over the providers `types` (name -> client type):
\* <<"ImportError", no map>> or <<"ModelManager", api_client_map>>
construct(types) ==
  IF \E n \in DOMAIN types : import_fails(types[n])
    THEN <<"ImportError", <<>>>>
    ELSE <<"ModelManager",
           [n \in DOMAIN types |->
              client_class(types[n], APIProvider(n, types[n]))]>>

\* ModelManager(config)
ManagerConstruct ==
  /\ \E types \in ApiProviderMaps :
       LET res == construct(types) IN
         /\ lookup' = Some(Outcome("construct", "", types, res[1]))
         /\ api_client_map' = res[2]
  /\ UNCHANGED <<call_vars, configs, req_conf, records, handler_fields,
                 task_model_usage_map, other, stub, client_call, raised,
                 message_vars>>

BuildInit ==
  /\ api_client_map = <<>>
  /\ lookup = None
  /\ task_model_usage_map = <<>>
  /\ req_conf \in {rc \in RequestConfigs : rc.max_retry = 0}
  /\ records = <<>>
  /\ task_name = ""
  /\ configs = <<>>
  /\ model_infos = <<>>
  /\ client_map = <<>>
  /\ op = "get_response"
  /\ messages = <<>>
  /\ pc = "done"
  /\ idx = 0
  /\ remain_try = 0
  /\ compressed_messages = None
  /\ record_id = None
  /\ exc = NoExc
  /\ handle_res = <<0, None>>
  /\ log = <<>>
  /\ result = NoResult
  /\ client = NoClient
  /\ other = None
  /\ stub = None
  /\ client_call = None
  /\ raised = None
  /\ builder = NewBuilder
  /\ built = <<>>
  /\ last_call = None

BuildNext == ManagerConstruct

BuildSpec == BuildInit /\ [][BuildNext]_vars

\* C31: constructing a manager over providers whose client modules all
\* exist gives a manager with exactly one client per provider, stored under
\* the provider's name, built by the class of its client type and holding
\* that provider; if some provider's client type has no module the
\* construction raises ImportError.
OneClientPerProvider ==
  (lookup # None /\ lookup[1].op = "construct")
    => LET types == lookup[1].value IN
         IF \E n \in DOMAIN types : types[n] \notin ClientModules
           THEN lookup[1].outcome = "ImportError"
           ELSE /\ lookup[1].outcome = "ModelManager"
                /\ DOMAIN api_client_map = DOMAIN types
                /\ \A n \in DOMAIN types :
                     api_client_map[n].api_provider = APIProvider(n, types[n])

\* a manager over two providers of different client types
TwoClientsBuiltWitness ==
  /\ lookup # None /\ lookup[1].outcome = "ModelManager"
  /\ DOMAIN api_client_map = {"p1", "p2"}
  /\ api_client_map["p1"].class = "OpenaiClient"
  /\ api_client_map["p2"].class = "GeminiClient"

\* ---------------------------------------------------------- MessageBuilder
\* Bound of the builder runs: items added to one builder.
MaxItems == 2

Texts == {"Hello"}

ImageFormats == {"png", "JPG", "bmp"}

\* str.lower() on the formats at hand
lower(f) == IF f = "JPG" THEN "jpg" ELSE f

SUPPORTED_IMAGE_FORMATS == {"jpg", "jpeg", "png", "webp", "gif"}

\* base64 strings: the empty one, and an image that compression scales
Base64Inputs == {"", "big"}

ToolCallIds == {"", "call_123"}

\* a call and how it ended: "ValueError", or what it returned
Call(o, args, res) == [op |-> o, args |-> args, outcome |-> res]

\* the Message the last build returned, as it was when returned, and
\* whether its content is the builder's own list object (build passes
\* self.__content itself unless the content is a single text)
Built(m) == [msg |-> m, shared |-> m.content.t = "list"]

\* the Message as it is now: a shared content list shows what the builder
\* has appended since
CurrentMessage(b) ==
  IF b.shared THEN [b.msg EXCEPT !.content = ListContent(builder.content)]
  ELSE b.msg

\* what an operation on the builder leaves alone
not_builder == <<op, pc, idx, remain_try, record_id, exc, handle_res, log,
                 result, client, configs, req_conf, records, handler_fields,
                 manager_state, other, stub, client_call, raised>>

\* MessageBuilder.set_role
SetRole ==
  /\ \E r \in RoleType :
       /\ builder' = [builder EXCEPT !.role = r]
       /\ last_call' = Some(Call("set_role", <<r>>, "MessageBuilder"))
  /\ UNCHANGED <<built, messages, compressed_messages, not_builder>>

\* AddTextContent putting the text in front of the content
AddTextContentInFront ==
  /\ Len(builder.content) < MaxItems
  /\ \E text \in Texts :
       /\ builder' = [builder EXCEPT !.content = <<TextItem(text)>> \o @]
       /\ last_call' = Some(Call("add_text_content", <<text>>, "MessageBuilder"))
  /\ UNCHANGED <<built, messages, compressed_messages, not_builder>>

\* MessageBuilder.add_text_content
AddTextContent ==
  /\ Len(builder.content) < MaxItems
  /\ \E text \in Texts :
       /\ builder' = [builder EXCEPT !.content = Append(@, TextItem(text))]
       /\ last_call' = Some(Call("add_text_content", <<text>>, "MessageBuilder"))
  /\ UNCHANGED <<built, messages, compressed_messages, not_builder>>

\* MessageBuilder.add_image_content
AddImageContent ==
  /\ \E f \in ImageFormats, d \in Base64Inputs :
       IF lower(f) \notin SUPPORTED_IMAGE_FORMATS \/ d = ""
         THEN /\ last_call' = Some(Call("add_image_content", <<f, d>>, "ValueError"))
              /\ UNCHANGED builder
         ELSE /\ Len(builder.content) < MaxItems
              /\ builder' = [builder EXCEPT !.content = Append(@, ImageItem(f, d))]
              /\ last_call' = Some(Call("add_image_content", <<f, d>>, "MessageBuilder"))
  /\ UNCHANGED <<built, messages, compressed_messages, not_builder>>

\* AddToolCall storing the id before it is tested
AddToolCallStoringFirst ==
  /\ \E id \in ToolCallIds :
       IF builder.role # "tool"
         THEN /\ last_call' = Some(Call("add_tool_call", <<id>>, "ValueError"))
              /\ UNCHANGED builder
         ELSE /\ builder' = [builder EXCEPT !.tool_call_id = Some(id)]
              /\ last_call' = Some(Call("add_tool_call", <<id>>,
                                 IF id = "" THEN "ValueError" ELSE "MessageBuilder"))
  /\ UNCHANGED <<built, messages, compressed_messages, not_builder>>

\* MessageBuilder.add_tool_call
AddToolCall ==
  /\ \E id \in ToolCallIds :
       IF builder.role # "tool" \/ id = ""
         THEN /\ last_call' = Some(Call("add_tool_call", <<id>>, "ValueError"))
              /\ UNCHANGED builder
         ELSE /\ builder' = [builder EXCEPT !.tool_call_id = Some(id)]
              /\ last_call' = Some(Call("add_tool_call", <<id>>, "MessageBuilder"))
  /\ UNCHANGED <<built, messages, compressed_messages, not_builder>>

\* MessageBuilder.build
Build ==
  /\ LET res == build(builder.role, builder.content, builder.tool_call_id) IN
       IF res[1]
         THEN /\ built' = Some(Built(res[2]))
              /\ last_call' = Some(Call("build", <<>>, "Message"))
         ELSE /\ last_call' = Some(Call("build", <<>>, "ValueError"))
              /\ UNCHANGED built
  /\ UNCHANGED <<builder, messages, compressed_messages, not_builder>>

BuilderInit ==
  /\ builder = NewBuilder
  /\ built = <<>>
  /\ last_call = None
  /\ messages = <<>>
  /\ compressed_messages = None
  /\ op = "get_response"
  /\ pc = "done"
  /\ idx = 0
  /\ remain_try = 0
  /\ record_id = None
  /\ exc = NoExc
  /\ handle_res = <<0, None>>
  /\ log = <<>>
  /\ result = NoResult
  /\ client = NoClient
  /\ configs = <<>>
  /\ req_conf \in {rc \in RequestConfigs : rc.max_retry = 0}
  /\ records = <<>>
  /\ task_name = ""
  /\ model_infos = <<>>
  /\ client_map = <<>>
  /\ task_model_usage_map = <<>>
  /\ api_client_map = <<>>
  /\ lookup = None
  /\ other = None
  /\ stub = None
  /\ client_call = None
  /\ raised = None

BuilderNext ==
  \/ SetRole
  \/ AddTextContent
  \/ AddImageContent
  \/ AddToolCall
  \/ Build

BuilderSpec == BuilderInit /\ [][BuilderNext]_vars

\* the step is the call o (every step of a builder run is a call, and
\* last_call' names it)
IsCall(o) == last_call'[1].op = o

\* C32: build raises ValueError when the builder has no content, and when
\* its role is Tool and it has no tool-call id; otherwise it returns a
\* Message.
BuildRejectsIncomplete ==
  [][ IsCall("build")
        => IF \/ Len(builder.content) = 0
              \/ builder.role = "tool" /\ builder.tool_call_id = None
             THEN /\ last_call'[1].outcome = "ValueError"
                  /\ built' = built
             ELSE /\ last_call'[1].outcome = "Message"
                  /\ built' # None ]_vars

\* a Tool builder with content and no tool-call id was refused
ToolWithoutIdRefusedWitness ==
  /\ last_call = Some(Call("build", <<>>, "ValueError"))
  /\ builder.role = "tool" /\ Len(builder.content) = 1
  /\ builder.tool_call_id = None


\* the step is a call the builder refuses: add_image_content with a format
\* that is not supported or with empty data, add_tool_call on a builder
\* whose role is not Tool or with an empty id
IsRejectedCall ==
  \/ /\ IsCall("add_image_content")
     /\ \/ lower(last_call'[1].args[1]) \notin SUPPORTED_IMAGE_FORMATS
        \/ last_call'[1].args[2] = ""
  \/ /\ IsCall("add_tool_call")
     /\ (builder.role # "tool" \/ last_call'[1].args[1] = "")

\* C33: a call the builder refuses raises ValueError and leaves the
\* builder's role, content and tool-call id as they were.
RejectedCallLeavesBuilder ==
  [][ IsRejectedCall
        => /\ last_call'[1].outcome = "ValueError"
           /\ builder' = builder ]_vars

\* a Tool builder that holds an id and an item refused an empty id and
\* kept both
EmptyIdRefusedWitness ==
  /\ last_call = Some(Call("add_tool_call", <<"">>, "ValueError"))
  /\ builder.role = "tool"
  /\ builder.tool_call_id = Some("call_123")
  /\ Len(builder.content) = 1


\* the content build gives a Message for the items added: the text itself
\* when the only item is a text, the list of the items otherwise
ContentOf(its) ==
  IF Len(its) = 1 /\ its[1].t = "text" THEN StrContent(its[1].data)
  ELSE ListContent(its)

\* C34: the role of the builder is that of the last set_role (User before
\* any), its content is the items added, in the order added, and a Message
\* built has that role, and as content the text when exactly one item was
\* added and it is a text, otherwise the list of all the items in order.
BuiltAsCalled ==
  /\ [](last_call = None => builder.role = "user" /\ builder.content = <<>>)
  /\ [][ /\ builder'.role = IF IsCall("set_role") THEN last_call'[1].args[1]
                            ELSE builder.role
         /\ builder'.content =
              IF IsCall("add_text_content")
                THEN Append(builder.content, TextItem(last_call'[1].args[1]))
              ELSE IF IsCall("add_image_content")
                      /\ last_call'[1].outcome # "ValueError"
                THEN Append(builder.content,
                            ImageItem(last_call'[1].args[1], last_call'[1].args[2]))
              ELSE builder.content
         /\ IsCall("build") /\ last_call'[1].outcome = "Message"
              => /\ built'[1].msg.role = builder.role
                 /\ built'[1].msg.content = ContentOf(builder.content) ]_vars

\* an Assistant Message was built from an image followed by a text
ImageThenTextBuiltWitness ==
  /\ last_call = Some(Call("build", <<>>, "Message"))
  /\ built # None
  /\ built[1].msg.role = "assistant"
  /\ built[1].msg.content =
       ListContent(<<ImageItem("JPG", "big"), TextItem("Hello")>>)


\* C39: a Message that build returned carries a tool-call id only if its
\* role is Tool.
ToolCallIdOnlyOnTool ==
  built # None /\ built[1].msg.tool_call_id # None
    => built[1].msg.role = "tool"

\* C40: a Message that build returned is now what it was when returned,
\* whatever was called on the builder since.
BuiltMessageUnchanged ==
  built # None => CurrentMessage(built[1]) = built[1].msg


\* ------------------------------------------------------ compress_messages
\* Bound of the message lists compressed.
MaxMessages == 2

\* Messages as a caller holds them: a text, a list of a text and a large
\* image, a list of one small image, each under every role (a Tool message
\* with its tool-call id).
CompressContents ==
  { StrContent("Hello"),
    ListContent(<<TextItem("look"), ImageItem("png", "big")>>),
    ListContent(<<ImageItem("JPG", "small")>>) }

CompressMessages ==
  { Message(r, c, IF r = "tool" THEN Some("call_123") ELSE None) :
      r \in RoleType, c \in CompressContents }

CompressInputs ==
  UNION { [1..n -> CompressMessages] : n \in 0..MaxMessages }

\* compress_messages(messages)
Compress ==
  /\ compressed_messages = None
  /\ compressed_messages' = Some(compress_messages(messages))
  /\ last_call' = Some(Call("compress_messages", <<>>, "list"))
  /\ UNCHANGED <<messages, builder, built, not_builder>>

CompressInit ==
  /\ messages \in CompressInputs
  /\ compressed_messages = None
  /\ builder = NewBuilder
  /\ built = <<>>
  /\ last_call = None
  /\ op = "get_response"
  /\ pc = "done"
  /\ idx = 0
  /\ remain_try = 0
  /\ record_id = None
  /\ exc = NoExc
  /\ handle_res = <<0, None>>
  /\ log = <<>>
  /\ result = NoResult
  /\ client = NoClient
  /\ configs = <<>>
  /\ req_conf \in {rc \in RequestConfigs : rc.max_retry = 0}
  /\ records = <<>>
  /\ task_name = ""
  /\ model_infos = <<>>
  /\ client_map = <<>>
  /\ task_model_usage_map = <<>>
  /\ api_client_map = <<>>
  /\ lookup = None
  /\ other = None
  /\ stub = None
  /\ client_call = None
  /\ raised = None

CompressNext == Compress

CompressSpec == CompressInit /\ [][CompressNext]_vars

\* the items of a content: a str is one text
ItemsOf(c) == IF c.t = "str" THEN <<TextItem(c.text)>> ELSE c.items

\* two messages differ at most in the data of their images
SameButImageData(a, b) ==
  /\ a.role = b.role
  /\ a.tool_call_id = b.tool_call_id
  /\ Len(ItemsOf(a.content)) = Len(ItemsOf(b.content))
  /\ \A k \in 1..Len(ItemsOf(a.content)) :
       LET x == ItemsOf(a.content)[k]
           y == ItemsOf(b.content)[k]
       IN /\ x.t = y.t
          /\ x.fmt = y.fmt
          /\ x.t = "text" => x.data = y.data

\* C38: the list compress_messages returns has as many messages as its
\* input, and each has the role, the tool-call id, the texts and the image
\* formats of the input message at its position.
CompressKeepsStructure ==
  compressed_messages # None
    => /\ Len(compressed_messages[1]) = Len(messages)
       /\ \A i \in 1..Len(messages) :
            SameButImageData(messages[i], compressed_messages[1][i])


\* ------------------------------------------------------------------- C35
\* what update_usage raises when the recorder's store fails: an exception
\* of no declared kind
RecorderError == [type |-> "Exception", status_code |-> 0]

\* the call returns a response with a usage, and update_usage(record_id,
\* ..., usage_data) raises inside the try: the except block runs with the
\* recorder's exception, and its own update_usage(..., FAILURE) either
\* works or raises out of get_response
RespUpdateRaises ==
  /\ UNCHANGED <<client, outside>>
  /\ op = "get_response" /\ pc = "await"
  /\ LET hr == default_exception_handler(
                 RecorderError, Decrement(remain_try), req_conf.retry_interval,
                 Some(<<messages, compressed_messages # None>>))
     IN /\ exc' = RecorderError
        /\ \E second_raises \in BOOLEAN :
             IF second_raises
               THEN /\ log' = log \o <<EvUpdate(idx, record_id[1], "Success"),
                                       EvUpdate(idx, record_id[1], "Failure")>>
                    /\ remain_try' = Decrement(remain_try)
                    /\ result' = Raised
                    /\ pc' = "done"
                    /\ UNCHANGED <<records, handle_res, compressed_messages>>
               ELSE /\ records' = update_usage(records, record_id[1], "Failure")
                    /\ handle_res' = hr
                    /\ log' = log \o <<EvUpdate(idx, record_id[1], "Success")>>
                                  \o except_events(idx, record_id, hr)
                    /\ remain_try' = AfterDecision(Decrement(remain_try), hr)
                    /\ IF hr[1] # -1 /\ hr[1] # 0
                         THEN /\ pc' = "sleep"
                              /\ UNCHANGED compressed_messages
                         ELSE /\ pc' = "while"
                              /\ compressed_messages' =
                                   IF hr[2] # None THEN hr[2] ELSE compressed_messages
                    /\ UNCHANGED result
  /\ UNCHANGED <<op, messages, configs, req_conf, idx, record_id>>

NextRecorder == Next \/ RespUpdateRaises

\* The dispatcher with a usage recorder whose update may fail.
SpecRecorder == Init /\ [][NextRecorder]_vars

\* the calls of update_usage made for record id
UpdateCallsOf(id) ==
  Cardinality({i \in 1..Len(log) : log[i].ev = "update" /\ log[i].id = id})

\* C35: once the provider call of an attempt has succeeded (update_usage is
\* called with its usage), get_response has returned that attempt's
\* response, nothing more was done, and update_usage was called at most
\* once for the attempt's record.
RecorderFailureKeepsSuccess ==
  \A i \in 1..Len(log) :
    log[i].ev = "update" /\ log[i].stat = "Success"
      => /\ i = Len(log)
         /\ result.kind = "response" /\ result.cand = log[i].cand
         /\ UpdateCallsOf(log[i].id) <= 1


\* C36: an interruption (the flag set while the request is pending) and a
\* response the parser rejects leave GeminiClient.get_response as
\* ReqAbortException and as RespParseException.
GeminiKeepsFailureKind ==
  (/\ raised # None
   /\ client_call[1].client = "gemini"
   /\ client_call[1].method = "get_response"
   /\ client_call[1].handler_given)
    => /\ client_call[1].lib.kind = "interrupted"
            => raised[1].type = "ReqAbortException"
       /\ client_call[1].lib.kind = "unparseable"
            => raised[1].type = "RespParseException"


====
